---- MODULE Spec2Model ----
(***************************************************************************)
(* Verification model of the VeraGrid numerical core:                      *)
(*   - linear_contingency_scan_numba (the PTDF/LODF N-1 scan),             *)
(*   - linear_contingency_analysis and the contingency time-series driver, *)
(*   - ReliabilityStudyDriver (Monte-Carlo reliability).                   *)
(* Each subsystem has its own variables and its own specification; the     *)
(* variables of the other subsystems are parked while one is explored.     *)
(***************************************************************************)
EXTENDS Integers, Sequences, FiniteSets, TLC

VARIABLES
    \* ---- linear_contingency_scan_numba ----
    scanIn,       \* the arguments of the call (record)
    SbrCon,       \* SbrCon[cg][m], np.zeros((n_con_groups, nbr))
    LoadingCon,   \* LoadingCon[cg][m], quotients num / (den + 1e-9)
    problems,     \* the list of (m, c) tuples
    scanPc,       \* scanPc[mm]: position of iteration mm of the prange loop
    \* ---- ContingencyAnalysisTimeSeriesDriver / linear_contingency_analysis ----
    conIn,        \* contingency groups used and branch rates
    tsCancel,     \* self.__cancel__ of the driver
    conPc,        \* position of the driver thread
    tsIt,         \* `it`, the position in time_indices
    nc,           \* the numerical circuit compiled for the current time index
    lcaIc,        \* `ic`, the contingency group being evaluated
    lcaLocal,     \* locals of linear_contingency_analysis (Pbus, flows_n, c_flow)
    resT,         \* the ContingencyAnalysisResults of the current call
    lcaFlows,     \* history: the c_flow computed for each group of the current call
    lcaPolls,     \* history: number of is_cancel() calls of the current call
    lcaReturn,    \* how the current call returned: "none", "cancel" or "normal"
    tsResults,    \* the ContingencyAnalysisTimeSeriesResults being filled
    \* ---- ReliabilityStudyDriver ----
    relIn,        \* reliability_mode and the devices' active flags in the grid
    relCancel,    \* self.__cancel__
    relCalls,     \* history: number of cancel() calls made so far
    relCancelPc,  \* history: the position of run() at the first cancel() call
    relPc,        \* position of the thread executing run()
    relSim,       \* sim_idx
    relGrid,      \* the MultiCircuit (self.grid)
    relNc,        \* nc = compile_numerical_circuit_at(self.grid)
    relNc2,       \* nc2 = nc.copy()
    relLoc,       \* locals of the sample: states matrices, blocks, position, batt_e_nom
    relENS,       \* ENS_arr (GridMetrics) / lole_arr (GenerationAdequacy)
    relStarted,   \* history: per sample "no", "clean" or "late" (started after cancel())
    relResults,   \* self.results
    \* ---- get_reduction_sets_1 / ward_standard_reduction ----
    wardIn,       \* the arguments: the grid's branches and reduction_bus_indices
    wardPc,       \* position inside ward_standard_reduction
    wardLoc,      \* locals: loop indices, the three sets, boundary_branches, the sorted arrays
    wardGrid,     \* the MultiCircuit that is modified in place
    \* ---- ptdf_reduction / ptdf_reduction_with_islands ----
    ptdfIn,       \* the arguments: the grid's branches, reduction_bus_indices, PTDF, variant
    ptdfPc,       \* position inside the function
    ptdfLoc,      \* locals: the reduction sets and the loop indices
    ptdfGrid,     \* the MultiCircuit that is modified in place
    \* ---- compose_states ----
    compIn,       \* the arguments: mttf, mttr, initially_working
    compPc,       \* position inside the function
    compLoc,      \* locals a, b, active, n_failures and the history of the sampled periods
    \* ---- find_time_blocks ----
    ftbIn,        \* all_actives, the matrix of active states
    ftbPc,        \* position inside the function
    ftbLoc,       \* locals tidx, blocks, idx_list
    \* ---- DiffBlockSolver._simulate_implicit_euler ----
    eulerIn,      \* t0, t_end, h, params0, method and the event of the parameter
    eulerPc,      \* position in simulate / _simulate_implicit_euler
    eulerLoc,     \* locals of _simulate_implicit_euler and the parameters seen by each Newton loop
    \* ---- DiffBlockSolver.__init__ ----
    buildIn,      \* the block tree handed to the constructor
    buildPc,      \* position in DiffBlockSolver.__init__
    buildLoc,     \* the flattened lists, uid2idx_vars and the pending _get_jacobian calls
    \* ---- run_small_signal_stability ----
    stabIn,       \* the real parts of the eigenvalues of the state matrix
    stabPc,       \* position in the stability assessment
    stabLoc,      \* unstable_eigs, zero_eigs and stability_report
    \* ---- ContingencyAnalysisTimeSeriesDriver: contingency groups of a run ----
    selIn,        \* the method and options.contingency_groups
    selPc,        \* position in the method
    selLoc,       \* con_names, the groups used and the rows of every time index
    \* ---- DynamicModelHost ----
    hostTemplate, \* _template
    hostCustom,   \* _custom_model
    hostCalls,    \* number of assignments made so far
    hostLast,     \* the last assignment: attribute, value, and whether it raised
    \* ---- block2diffblock ----
    b2dIn,        \* the shape of the block tree that is converted
    b2dBlocks,    \* the heap of blocks: attribute -> reference of a list
    b2dLists,     \* the heap of list objects
    b2dStack,     \* the frames of block2diffblock
    b2dRes        \* the blocks returned by the conversions of the root

scanVars == <<scanIn, SbrCon, LoadingCon, problems, scanPc>>

conVars == <<conIn, tsCancel, conPc, tsIt, nc, lcaIc, lcaLocal, resT, lcaFlows,
             lcaPolls, lcaReturn, tsResults>>

relVars == <<relIn, relCancel, relCalls, relCancelPc, relPc, relSim, relGrid, relNc, relNc2, relLoc,
             relENS, relStarted, relResults>>

wardVars == <<wardIn, wardPc, wardLoc, wardGrid>>

\* the subsystems other than the scan, the contingency driver and the reliability driver
ptdfVars == <<ptdfIn, ptdfPc, ptdfLoc, ptdfGrid>>

compVars == <<compIn, compPc, compLoc>>

ftbVars == <<ftbIn, ftbPc, ftbLoc>>

eulerVars == <<eulerIn, eulerPc, eulerLoc>>

buildVars == <<buildIn, buildPc, buildLoc>>

stabVars == <<stabIn, stabPc, stabLoc>>

selVars == <<selIn, selPc, selLoc>>

hostVars == <<hostTemplate, hostCustom, hostCalls, hostLast>>

b2dVars == <<b2dIn, b2dBlocks, b2dLists, b2dStack, b2dRes>>

extVars == <<wardVars, ptdfVars, compVars, ftbVars, eulerVars, buildVars, stabVars, selVars, hostVars, b2dVars>>

vars == <<scanVars, conVars, relVars, extVars>>

\* the variables each subsystem leaves alone
scanOthers == <<conVars, relVars, extVars>>
conOthers == <<scanVars, relVars, extVars>>
relOthers == <<scanVars, conVars, extVars>>
wardOthers == <<scanVars, conVars, relVars, ptdfVars, compVars, ftbVars, eulerVars, buildVars, stabVars, selVars, hostVars, b2dVars>>
ptdfOthers == <<scanVars, conVars, relVars, wardVars, compVars, ftbVars, eulerVars, buildVars, stabVars, selVars, hostVars, b2dVars>>
compOthers == <<scanVars, conVars, relVars, wardVars, ptdfVars, ftbVars, eulerVars, buildVars, stabVars, selVars, hostVars, b2dVars>>
ftbOthers == <<scanVars, conVars, relVars, wardVars, ptdfVars, compVars, eulerVars, buildVars, stabVars, selVars, hostVars, b2dVars>>
eulerOthers == <<scanVars, conVars, relVars, wardVars, ptdfVars, compVars, ftbVars, buildVars, stabVars, selVars, hostVars, b2dVars>>
buildOthers == <<scanVars, conVars, relVars, wardVars, ptdfVars, compVars, ftbVars, eulerVars, stabVars, selVars, hostVars, b2dVars>>
stabOthers == <<scanVars, conVars, relVars, wardVars, ptdfVars, compVars, ftbVars, eulerVars, buildVars, selVars, hostVars, b2dVars>>
selOthers == <<scanVars, conVars, relVars, wardVars, ptdfVars, compVars, ftbVars, eulerVars, buildVars, stabVars, hostVars, b2dVars>>
hostOthers == <<scanVars, conVars, relVars, wardVars, ptdfVars, compVars, ftbVars, eulerVars, buildVars, stabVars, selVars, b2dVars>>
b2dOthers == <<scanVars, conVars, relVars, wardVars, ptdfVars, compVars, ftbVars, eulerVars, buildVars, stabVars, selVars, hostVars>>

(***************************************************************************)
(* Bounds of the model                                                     *)
(***************************************************************************)
NBr == 2        \* number of branches (nbr)
NBus == 2       \* number of buses
NCg == 2        \* number of contingency groups (n_con_groups)
MaxP == 1       \* bus injections are drawn from 0..MaxP
NT == 2         \* number of time indices of a time-series run
NSim == 2       \* n_sim, the number of Monte-Carlo samples
Horizon == 2    \* number of time steps of the grid's time profile
MaxCancelCalls == 2   \* cancel() is called at most this many times

Branch == 0 .. (NBr - 1)
Bus == 0 .. (NBus - 1)
Cg == 0 .. (NCg - 1)
Time == 0 .. (NT - 1)

(***************************************************************************)
(* Arithmetic helpers                                                      *)
(***************************************************************************)
Abs(x) == IF x < 0 THEN -x ELSE x

RECURSIVE SumTo(_, _)
\* sum of f[0] + ... + f[n-1]
SumTo(f, n) == IF n = 0 THEN 0 ELSE SumTo(f, n - 1) + f[n - 1]

\* a / (b + 1e-9) kept as an exact quotient; b >= 0 in every use
Div(a, b) == [num |-> a, den |-> b]

\* equality of two guarded quotients with positive denominators
QEq(p, q) == p.num * q.den = q.num * p.den

ZeroQ == Div(0, 1)

RECURSIVE IndicesWhere(_, _)
\* np.where(flag == 1)[0] restricted to 0..n-1: the increasing sequence of indices
IndicesWhere(flag, n) ==
    IF n = 0 THEN <<>>
    ELSE IF flag[n - 1] THEN Append(IndicesWhere(flag, n - 1), n - 1)
         ELSE IndicesWhere(flag, n - 1)

RECURSIVE SingleConBr(_, _)
\* branch indices of the groups that are single-branch contingencies, in group order
SingleConBr(conOf, n) ==
    IF n = 0 THEN <<>>
    ELSE IF conOf[n - 1] >= 0 THEN Append(SingleConBr(conOf, n - 1), conOf[n - 1])
         ELSE SingleConBr(conOf, n - 1)

RECURSIVE SingleConCg(_, _)
\* the matching contingency group indices
SingleConCg(conOf, n) ==
    IF n = 0 THEN <<>>
    ELSE IF conOf[n - 1] >= 0 THEN Append(SingleConCg(conOf, n - 1), n - 1)
         ELSE SingleConCg(conOf, n - 1)

Range(s) == {s[i] : i \in DOMAIN s}

Count(s, x) == Cardinality({i \in DOMAIN s : s[i] = x})

(***************************************************************************)
(* Inputs of the scan                                                      *)
(***************************************************************************)
\* two linear analyses (PTDF with its LODF)
LinA == [PTDF |-> [m \in Branch |-> [j \in Bus |-> IF j = m % NBus THEN 2 ELSE -1]],
         LODF |-> [m \in Branch |-> [c \in Branch |-> IF m = c THEN -1 ELSE 1]]]

LinB == [PTDF |-> [m \in Branch |-> [j \in Bus |-> IF j <= m THEN 1 ELSE 0]],
         LODF |-> [m \in Branch |-> [c \in Branch |->
                      IF m = c THEN -1 ELSE IF m < c THEN 2 ELSE -1]]]

RateVectors == {[m \in Branch |-> 1], [m \in Branch |-> 2 - (m % 2)]}

ScanInputs ==
    { [Pbus |-> p, rates |-> r, con_rates |-> [m \in Branch |-> r[m] + g],
       PTDF |-> lin.PTDF, LODF |-> lin.LODF,
       mon_idx |-> IndicesWhere(mon, NBr),
       single_con_br_idx |-> SingleConBr(conOf, NCg),
       single_con_cg_idx |-> SingleConCg(conOf, NCg)] :
         p \in [Bus -> 0 .. MaxP], r \in RateVectors, g \in {0, 1},
         lin \in {LinA, LinB}, mon \in [Branch -> BOOLEAN],
         conOf \in [Cg -> Branch \cup {-1}] }

(***************************************************************************)
(* linear_contingency_scan_numba                                           *)
(***************************************************************************)
\* Sbr0 = PTDF @ Pbus
Sbr0(in) == [m \in Branch |->
               SumTo([j \in Bus |-> in.PTDF[m][j] * in.Pbus[j]], NBus)]

NCon(in) == Len(in.single_con_br_idx)

\* the LODF entry taken transposed
ContingencyFlowTransposed(in, m, c) == Sbr0(in)[m] + in.LODF[c][m] * Sbr0(in)[c]

\* Sbr0[m] + LODF[m, c] * Sbr0[c]
ContingencyFlow(in, m, c) == Sbr0(in)[m] + in.LODF[m][c] * Sbr0(in)[c]

\* abs(Sbr0[m]) <= rates[m]
BaseWithinRate(in, m) == Abs(Sbr0(in)[m]) <= in.rates[m]

\* the post-contingency flow compared with the base rate
IsConOverloadBaseRate(in, m, flow) == Abs(flow) > in.rates[m]

\* abs(SbrCon[cgi, m]) > con_rates[m]
IsConOverload(in, m, flow) == Abs(flow) > in.con_rates[m]

\* LoadingCon[:, m] = Sbr0[m] / (rates[m] + 1e-9)
BaseLoading(in, m) == Div(Sbr0(in)[m], in.rates[m])

\* LoadingCon[cgi, m] = Sbr0[m] / (con_rates[m] + 1e-9)
OverloadLoading(in, m) == Div(Sbr0(in)[m], in.con_rates[m])

ScanDonePc(in) == NCon(in) + 1

ScanInit ==
    /\ scanIn \in ScanInputs
    /\ SbrCon = [g \in Cg |-> [m \in Branch |-> 0]]
    /\ LoadingCon = [g \in Cg |-> [m \in Branch |-> ZeroQ]]
    /\ problems = <<>>
    /\ scanPc = [mm \in 1 .. Len(scanIn.mon_idx) |-> 0]

\* head of iteration mm: the base loading and the pre-contingency test
ScanBase(mm) ==
    LET m == scanIn.mon_idx[mm] IN
    /\ scanPc[mm] = 0
    /\ LoadingCon' = [g \in Cg |-> [LoadingCon[g] EXCEPT ![m] = BaseLoading(scanIn, m)]]
    /\ IF BaseWithinRate(scanIn, m)
       THEN /\ scanPc' = [scanPc EXCEPT ![mm] = 1]
            /\ problems' = problems
       ELSE /\ scanPc' = [scanPc EXCEPT ![mm] = ScanDonePc(scanIn)]
            /\ problems' = Append(problems, <<m, -1>>)
    /\ UNCHANGED <<scanIn, SbrCon, scanOthers>>

\* one pass of the inner loop of iteration mm
ScanCon(mm) ==
    LET m == scanIn.mon_idx[mm]
        k == scanPc[mm]
    IN
    /\ k >= 1
    /\ k <= NCon(scanIn)
    /\ LET c == scanIn.single_con_br_idx[k]
           cgi == scanIn.single_con_cg_idx[k]
           flow == ContingencyFlow(scanIn, m, c)
       IN
       /\ SbrCon' = [SbrCon EXCEPT ![cgi][m] = flow]
       /\ IF IsConOverload(scanIn, m, flow)
          THEN /\ LoadingCon' = [LoadingCon EXCEPT ![cgi][m] = OverloadLoading(scanIn, m)]
               /\ problems' = Append(problems, <<m, c>>)
          ELSE UNCHANGED <<LoadingCon, problems>>
    /\ scanPc' = [scanPc EXCEPT ![mm] = k + 1]
    /\ UNCHANGED <<scanIn, scanOthers>>

ScanNext ==
    \/ \E mm \in DOMAIN scanPc : ScanBase(mm)
    \/ \E mm \in DOMAIN scanPc : ScanCon(mm)

ConParked ==
    /\ conIn = 0 /\ tsCancel = FALSE /\ conPc = "parked" /\ tsIt = 0 /\ nc = 0
    /\ lcaIc = 0 /\ lcaLocal = 0 /\ resT = 0 /\ lcaFlows = <<>> /\ lcaPolls = 0
    /\ lcaReturn = "none" /\ tsResults = 0

RelParked ==
    /\ relIn = 0 /\ relCancel = FALSE /\ relCalls = 0 /\ relCancelPc = "none"
    /\ relPc = "parked" /\ relSim = 0
    /\ relGrid = 0 /\ relNc = 0 /\ relNc2 = 0 /\ relLoc = 0 /\ relENS = 0
    /\ relStarted = 0 /\ relResults = 0

WardParked == wardIn = 0 /\ wardPc = "parked" /\ wardLoc = 0 /\ wardGrid = 0

PtdfParked == ptdfIn = 0 /\ ptdfPc = "parked" /\ ptdfLoc = 0 /\ ptdfGrid = 0

CompParked == compIn = 0 /\ compPc = "parked" /\ compLoc = 0

FtbParked == ftbIn = 0 /\ ftbPc = "parked" /\ ftbLoc = 0

EulerParked == eulerIn = 0 /\ eulerPc = "parked" /\ eulerLoc = 0

BuildParked == buildIn = 0 /\ buildPc = "parked" /\ buildLoc = 0

StabParked == stabIn = 0 /\ stabPc = "parked" /\ stabLoc = 0

SelParked == selIn = 0 /\ selPc = "parked" /\ selLoc = 0

HostParked == hostTemplate = 0 /\ hostCustom = 0 /\ hostCalls = 0 /\ hostLast = 0

B2dParked == b2dIn = 0 /\ b2dBlocks = <<>> /\ b2dLists = <<>> /\ b2dStack = <<>> /\ b2dRes = <<>>

ExtParked == WardParked /\ PtdfParked /\ CompParked /\ FtbParked /\ EulerParked /\ BuildParked /\ StabParked /\ SelParked /\ HostParked /\ B2dParked

ScanSpecInit == ScanInit /\ ConParked /\ RelParked /\ ExtParked

SpecScan == ScanSpecInit /\ [][ScanNext]_vars

ScanReturned == \A mm \in DOMAIN scanPc : scanPc[mm] = ScanDonePc(scanIn)

(***************************************************************************)
(* Properties of the scan                                                  *)
(***************************************************************************)
\* the base flow of branch m written out: row m of PTDF times Pbus
Flow0(m) == SumTo([j \in Bus |-> scanIn.PTDF[m][j] * scanIn.Pbus[j]], NBus)

\* the post-contingency flow of m for the outage of c, written out
FlowCon(m, c) == Flow0(m) + scanIn.LODF[m][c] * Flow0(c)

Monitored(m) == \E mm \in DOMAIN scanIn.mon_idx : scanIn.mon_idx[mm] = m

\* the (mm, k) pairs the scan evaluates: monitored branch within its rate, single contingency k
Evaluated(mm, k) ==
    /\ mm \in DOMAIN scanIn.mon_idx
    /\ k \in 1 .. NCon(scanIn)
    /\ Abs(Flow0(scanIn.mon_idx[mm])) <= scanIn.rates[scanIn.mon_idx[mm]]

\* C2: for every monitored branch m with |Sbr0[m]| <= rates[m] and every single
\* contingency (c, cg), the returned SbrCon[cg, m] = Sbr0[m] + LODF[m, c] * Sbr0[c],
\* with Sbr0 = PTDF @ Pbus.
C2_ScanFlow ==
    ScanReturned =>
        \A mm \in DOMAIN scanIn.mon_idx, k \in 1 .. NCon(scanIn) :
            Evaluated(mm, k) =>
                SbrCon[scanIn.single_con_cg_idx[k]][scanIn.mon_idx[mm]]
                    = FlowCon(scanIn.mon_idx[mm], scanIn.single_con_br_idx[k])

C2_Witness ==
    /\ ScanReturned
    /\ \E mm \in DOMAIN scanIn.mon_idx, k \in 1 .. NCon(scanIn) :
          /\ Evaluated(mm, k)
          /\ scanIn.mon_idx[mm] # scanIn.single_con_br_idx[k]
          /\ Flow0(scanIn.single_con_br_idx[k]) # 0
          /\ SbrCon[scanIn.single_con_cg_idx[k]][scanIn.mon_idx[mm]] # Flow0(scanIn.mon_idx[mm])
          /\ SbrCon[scanIn.single_con_cg_idx[k]][scanIn.mon_idx[mm]] # 0

\* C3: for every evaluated (m, c, cg) the reported loading is the post-contingency
\* flow over the contingency rate: LoadingCon[cg, m] = SbrCon[cg, m] / con_rates[m].
C3_LoadingIsPostFlow ==
    ScanReturned =>
        \A mm \in DOMAIN scanIn.mon_idx, k \in 1 .. NCon(scanIn) :
            Evaluated(mm, k) =>
                QEq(LoadingCon[scanIn.single_con_cg_idx[k]][scanIn.mon_idx[mm]],
                    Div(SbrCon[scanIn.single_con_cg_idx[k]][scanIn.mon_idx[mm]],
                        scanIn.con_rates[scanIn.mon_idx[mm]]))

\* the tuples the overload list is to hold
ExpectedCon(m, c) ==
    /\ Monitored(m)
    /\ Abs(Flow0(m)) <= scanIn.rates[m]
    /\ c \in Range(scanIn.single_con_br_idx)
    /\ Abs(FlowCon(m, c)) > scanIn.con_rates[m]

ExpectedPre(m) == Monitored(m) /\ Abs(Flow0(m)) > scanIn.rates[m]

\* C4: the overload list holds (m, c) iff m is monitored, within its rate in the base
\* case and over its contingency rate after the outage of c; it holds (m, -1) exactly
\* once iff m is monitored and over its rate in the base case, and then no contingency
\* of m is evaluated; it holds nothing else.
C4_OverloadList ==
    ScanReturned =>
        /\ \A m \in Branch, c \in Branch :
              (<<m, c>> \in Range(problems)) <=> ExpectedCon(m, c)
        /\ \A m \in Branch :
              Count(problems, <<m, -1>>) = IF ExpectedPre(m) THEN 1 ELSE 0
        /\ \A m \in Branch :
              ExpectedPre(m) => \A g \in Cg : SbrCon[g][m] = 0
        /\ \A i \in DOMAIN problems :
              problems[i] \in Branch \X (Branch \cup {-1})

C4_Witness ==
    /\ ScanReturned
    /\ \E m \in Branch : <<m, -1>> \in Range(problems)
    /\ \E m \in Branch, c \in Branch : <<m, c>> \in Range(problems)
    /\ \E mm \in DOMAIN scanIn.mon_idx, k \in 1 .. NCon(scanIn) :
          /\ Evaluated(mm, k)
          /\ <<scanIn.mon_idx[mm], scanIn.single_con_br_idx[k]>> \notin Range(problems)

RECURSIVE InOrderCon(_, _, _)
\* the tuples iteration m appends for contingencies 1..k, in loop order
InOrderCon(in, m, k) ==
    IF k = 0 THEN <<>>
    ELSE IF Abs(Sbr0(in)[m] + in.LODF[m][in.single_con_br_idx[k]]
                    * Sbr0(in)[in.single_con_br_idx[k]]) > in.con_rates[m]
         THEN Append(InOrderCon(in, m, k - 1), <<m, in.single_con_br_idx[k]>>)
         ELSE InOrderCon(in, m, k - 1)

RECURSIVE InOrderProblems(_, _)
\* the overload list when iterations 1..n run one after the other in index order
InOrderProblems(in, n) ==
    IF n = 0 THEN <<>>
    ELSE InOrderProblems(in, n - 1) \o
         (IF Abs(Sbr0(in)[in.mon_idx[n]]) <= in.rates[in.mon_idx[n]]
          THEN InOrderCon(in, in.mon_idx[n], NCon(in))
          ELSE << <<in.mon_idx[n], -1>> >>)

\* the single contingency, if any, that belongs to group g
ConOfGroup(g) == {k \in 1 .. NCon(scanIn) : scanIn.single_con_cg_idx[k] = g}

\* what the in-order execution leaves in SbrCon[g][m]
InOrderSbrCon(g, m) ==
    IF Monitored(m) /\ Abs(Flow0(m)) <= scanIn.rates[m] /\ ConOfGroup(g) # {}
    THEN FlowCon(m, scanIn.single_con_br_idx[CHOOSE k \in ConOfGroup(g) : TRUE])
    ELSE 0

\* what the in-order execution leaves in LoadingCon[g][m]
InOrderLoadingCon(g, m) ==
    IF ~Monitored(m) THEN ZeroQ
    ELSE IF /\ Abs(Flow0(m)) <= scanIn.rates[m]
            /\ ConOfGroup(g) # {}
            /\ Abs(InOrderSbrCon(g, m)) > scanIn.con_rates[m]
         THEN Div(Flow0(m), scanIn.con_rates[m])
         ELSE Div(Flow0(m), scanIn.rates[m])

ScanMatricesDeterministic ==
    ScanReturned =>
        \A g \in Cg, m \in Branch :
            /\ SbrCon[g][m] = InOrderSbrCon(g, m)
            /\ LoadingCon[g][m] = InOrderLoadingCon(g, m)

BrOut(c) == [kind |-> "branch", idx |-> c, prop |-> "active", value |-> 0]
InjOff(i) == [kind |-> "inj", idx |-> i, prop |-> "active", value |-> 0]
InjPct(i) == [kind |-> "inj", idx |-> i, prop |-> "pct", value |-> 50]

GroupKinds ==
    {<<BrOut(c)>> : c \in Branch} \cup {<<InjOff(i)>> : i \in Bus}
        \cup {<<InjPct(i)>> : i \in Bus} \cup {<<BrOut(0), InjOff(0)>>}

ConInputs == [groups : [Cg -> GroupKinds], rates : RateVectors]

\* active power profile of the injection at bus i (MW) at time index t
PProfile(t) == [i \in Bus |-> 4 + 4 * ((t + i) % 2)]

\* compile_numerical_circuit_at(grid, t_idx=t): every device in service
CompileNC(t) ==
    [brActive |-> [m \in Branch |-> TRUE],
     injActive |-> [i \in Bus |-> TRUE],
     injP |-> PProfile(t)]

\* nc.get_power_injections().real
GetPowerInjections(n) == [i \in Bus |-> IF n.injActive[i] THEN n.injP[i] ELSE 0]

\* linear_analysis.get_flows(Sbus): PTDF @ Sbus
GetFlows(pbus) == [m \in Branch |-> SumTo([j \in Bus |-> LinB.PTDF[m][j] * pbus[j]], NBus)]

\* multi_contingency.has_injection_contingencies()
HasInjectionContingencies(events) == \E k \in DOMAIN events : events[k].kind = "inj"

\* one event applied to the circuit; acc = [nc, injections]
ApplyEvent(acc, ev) ==
    IF ev.kind = "branch"
    THEN [acc EXCEPT !.nc.brActive[ev.idx] = (ev.value = 1)]
    ELSE IF ev.prop = "active"
    THEN [nc |-> [acc.nc EXCEPT !.injActive[ev.idx] = (ev.value = 1)],
          injections |-> [acc.injections EXCEPT ![ev.idx] =
                            @ + (IF ev.value = 1 THEN acc.nc.injP[ev.idx] ELSE 0)
                              - GetPowerInjections(acc.nc)[ev.idx]]]
    ELSE [nc |-> [acc.nc EXCEPT !.injP[ev.idx] = (@ * ev.value) \div 100],
          injections |-> [acc.injections EXCEPT ![ev.idx] =
                            @ + ((acc.nc.injP[ev.idx] * ev.value) \div 100)
                              - acc.nc.injP[ev.idx]]]

RECURSIVE ApplyEvents(_, _, _)
ApplyEvents(acc, events, k) ==
    IF k > Len(events) THEN acc
    ELSE ApplyEvents(ApplyEvent(acc, events[k]), events, k + 1)

\* nc.set_con_or_ra_status(event_list): the events are applied to nc itself and the
\* power injection increments are returned
SetConOrRaStatus(n, events) ==
    ApplyEvents([nc |-> n, injections |-> [i \in Bus |-> 0]], events, 1)

NoInjections == [i \in Bus |-> 0]

\* multi_contingency.get_contingency_flows(base_branches_flow, injections)
GetContingencyFlows(events, flows, injections) ==
    [m \in Branch |->
        flows[m]
        + SumTo([c \in Branch |->
                    IF \E k \in DOMAIN events :
                          events[k].kind = "branch" /\ events[k].idx = c
                    THEN LinB.LODF[m][c] * flows[c] ELSE 0], NBr)
        + SumTo([j \in Bus |-> LinB.PTDF[m][j] * injections[j]], NBus)]

\* flows / (rates + 1e-9)
LoadingOf(flows, rates) == [m \in Branch |-> Div(flows[m], rates[m])]

RECURSIVE ReportRows(_, _, _, _)
\* results.report.analyze(...): one row per branch over its rate after the contingency
ReportRows(ic, flows, rates, n) ==
    IF n = 0 THEN <<>>
    ELSE IF Abs(flows[n - 1]) > rates[n - 1]
         THEN Append(ReportRows(ic, flows, rates, n - 1), <<ic, n - 1>>)
         ELSE ReportRows(ic, flows, rates, n - 1)

\* ContingencyAnalysisResults(ncon, nbr, nbus, ...)
NewResults ==
    [Sf |-> [g \in Cg |-> [m \in Branch |-> 0]],
     Sbus |-> [g \in Cg |-> [i \in Bus |-> 0]],
     loading |-> [g \in Cg |-> [m \in Branch |-> ZeroQ]],
     report |-> <<>>,
     lodf |-> FALSE]

\* ContingencyAnalysisTimeSeriesResults(...): no attribute records a cancellation
NewTsResults ==
    [max_flows |-> [t \in Time |-> [m \in Branch |-> 0]],
     overload_count |-> [t \in Time |-> [m \in Branch |-> 0]],
     report |-> <<>>,
     cancelled |-> FALSE]

RECURSIVE MaxAbsCol(_, _, _)
\* column j of max_abs_per_col over rows 0..n-1: the entry of largest magnitude
MaxAbsCol(A, j, n) ==
    IF n = 0 THEN 0
    ELSE LET r == MaxAbsCol(A, j, n - 1) IN
         IF Abs(A[n - 1][j]) > Abs(r) THEN A[n - 1][j] ELSE r

MaxAbsPerCol(A) == [j \in Branch |-> MaxAbsCol(A, j, NCg)]

\* an entry of `overloading > 1.0`: the magnitude of the loading is above 1
OverOne(q) == Abs(q.num) > q.den

\* np.count_nonzero(overloading > 1.0): one number for the whole (ncon, nbranch) matrix
CountNonzeroOver(loading) ==
    Cardinality({gm \in Cg \X Branch : OverOne(loading[gm[1]][gm[2]])})

(***************************************************************************)
(* ContingencyAnalysisTimeSeriesDriver.run_linear_contingency_analysis     *)
(* with linear_contingency_analysis inlined, and cancel() on another thread*)
(***************************************************************************)
ConInit ==
    /\ conIn \in ConInputs
    /\ tsCancel = FALSE
    /\ conPc = "compile"
    /\ tsIt = 0
    /\ nc = CompileNC(0)
    /\ lcaIc = 0
    /\ lcaLocal = [Pbus |-> NoInjections, flows_n |-> [m \in Branch |-> 0],
                   c_flow |-> [m \in Branch |-> 0]]
    /\ resT = NewResults
    /\ lcaFlows = <<>>
    /\ lcaPolls = 0
    /\ lcaReturn = "none"
    /\ tsResults = NewTsResults

\* DriverTemplate.cancel(), called from another thread at any time
TsCancel ==
    /\ conPc \notin {"returned", "returnedEarly", "parked"}
    /\ tsCancel = FALSE
    /\ tsCancel' = TRUE
    /\ UNCHANGED <<conIn, conPc, tsIt, nc, lcaIc, lcaLocal, resT, lcaFlows, lcaPolls,
                   lcaReturn, tsResults, conOthers>>

\* head of the time loop and entry of linear_contingency_analysis: compile nc,
\* declare the results, compute Pbus and the base flows
TsCompile ==
    /\ conPc = "compile"
    /\ nc' = CompileNC(tsIt)
    /\ resT' = NewResults
    /\ lcaLocal' = [Pbus |-> GetPowerInjections(CompileNC(tsIt)),
                    flows_n |-> GetFlows(GetPowerInjections(CompileNC(tsIt))),
                    c_flow |-> [m \in Branch |-> 0]]
    /\ lcaIc' = 0
    /\ lcaFlows' = <<>>
    /\ lcaPolls' = 0
    /\ lcaReturn' = "none"
    /\ conPc' = "apply"
    /\ UNCHANGED <<conIn, tsCancel, tsIt, tsResults, conOthers>>

\* the cancellation polled before the loading row is written
LcaStepAfterEarlyCheck(pc) ==
    CASE pc = "apply" -> "writeSf"
      [] pc = "writeSf" -> "writeSbus"
      [] pc = "writeSbus" -> "check"
      [] pc = "writeLoading" -> "report"
      [] pc = "report" -> "check"

\* the position that follows each statement of the body of the group loop
LcaStepAfter(pc) ==
    CASE pc = "apply" -> "writeSf"
      [] pc = "writeSf" -> "writeSbus"
      [] pc = "writeSbus" -> "writeLoading"
      [] pc = "writeLoading" -> "report"
      [] pc = "report" -> "check"

\* apply the group's events and compute its flows
LcaApply ==
    /\ conPc = "apply"
    /\ LET events == conIn.groups[lcaIc]
           applied == SetConOrRaStatus(nc, events)
           cf == IF HasInjectionContingencies(events)
                 THEN GetContingencyFlows(events, lcaLocal.flows_n, applied.injections)
                 ELSE GetContingencyFlows(events, lcaLocal.flows_n, NoInjections)
       IN
       /\ nc' = IF HasInjectionContingencies(events) THEN applied.nc ELSE nc
       /\ lcaLocal' = [lcaLocal EXCEPT !.c_flow = cf]
       /\ lcaFlows' = Append(lcaFlows, cf)
    /\ conPc' = LcaStepAfter(conPc)
    /\ UNCHANGED <<conIn, tsCancel, tsIt, lcaIc, resT, lcaPolls, lcaReturn, tsResults,
                   conOthers>>

\* results.Sf[ic, :] = c_flow
LcaWriteSf ==
    /\ conPc = "writeSf"
    /\ resT' = [resT EXCEPT !.Sf[lcaIc] = lcaLocal.c_flow]
    /\ conPc' = LcaStepAfter(conPc)
    /\ UNCHANGED <<conIn, tsCancel, tsIt, nc, lcaIc, lcaLocal, lcaFlows, lcaPolls,
                   lcaReturn, tsResults, conOthers>>

\* results.Sbus[ic, :] = Pbus
LcaWriteSbus ==
    /\ conPc = "writeSbus"
    /\ resT' = [resT EXCEPT !.Sbus[lcaIc] = lcaLocal.Pbus]
    /\ conPc' = LcaStepAfter(conPc)
    /\ UNCHANGED <<conIn, tsCancel, tsIt, nc, lcaIc, lcaLocal, lcaFlows, lcaPolls,
                   lcaReturn, tsResults, conOthers>>

\* results.loading[ic, :] = c_loading
LcaWriteLoading ==
    /\ conPc = "writeLoading"
    /\ resT' = [resT EXCEPT !.loading[lcaIc] = LoadingOf(lcaLocal.c_flow, conIn.rates)]
    /\ conPc' = LcaStepAfter(conPc)
    /\ UNCHANGED <<conIn, tsCancel, tsIt, nc, lcaIc, lcaLocal, lcaFlows, lcaPolls,
                   lcaReturn, tsResults, conOthers>>

\* results.report.analyze(...)
LcaReport ==
    /\ conPc = "report"
    /\ resT' = [resT EXCEPT !.report =
                   @ \o ReportRows(lcaIc, lcaLocal.c_flow, conIn.rates, NBr)]
    /\ conPc' = LcaStepAfter(conPc)
    /\ UNCHANGED <<conIn, tsCancel, tsIt, nc, lcaIc, lcaLocal, lcaFlows, lcaPolls,
                   lcaReturn, tsResults, conOthers>>

\* if is_cancel(): return results -- else the next group, or the normal return
LcaCheckCancel ==
    /\ conPc = "check"
    /\ lcaPolls' = lcaPolls + 1
    /\ IF tsCancel
       THEN /\ lcaReturn' = "cancel"
            /\ conPc' = "aggregate"
            /\ UNCHANGED <<lcaIc, resT>>
       ELSE IF lcaIc + 1 < NCg
       THEN /\ lcaIc' = lcaIc + 1
            /\ conPc' = "apply"
            /\ UNCHANGED <<lcaReturn, resT>>
       ELSE /\ resT' = [resT EXCEPT !.lodf = TRUE]
            /\ lcaReturn' = "normal"
            /\ conPc' = "aggregate"
            /\ UNCHANGED lcaIc
    /\ UNCHANGED <<conIn, tsCancel, tsIt, nc, lcaLocal, lcaFlows, tsResults, conOthers>>

\* the statistics of time row `it`, then `if self.__cancel__: return results`
TsAggregate ==
    /\ conPc = "aggregate"
    /\ tsResults' = [tsResults EXCEPT
                        !.max_flows[tsIt] = MaxAbsPerCol(resT.Sf),
                        !.overload_count[tsIt] =
                            [m \in Branch |-> CountNonzeroOver(resT.loading)],
                        !.report = @ \o resT.report]
    /\ IF tsCancel
       THEN /\ conPc' = "returnedEarly"
            /\ UNCHANGED tsIt
       ELSE IF tsIt + 1 < NT
       THEN /\ tsIt' = tsIt + 1
            /\ conPc' = "compile"
       ELSE /\ conPc' = "returned"
            /\ UNCHANGED tsIt
    /\ UNCHANGED <<conIn, tsCancel, nc, lcaIc, lcaLocal, resT, lcaFlows, lcaPolls,
                   lcaReturn, conOthers>>

ConNext ==
    \/ TsCancel
    \/ TsCompile
    \/ LcaApply
    \/ LcaWriteSf
    \/ LcaWriteSbus
    \/ LcaWriteLoading
    \/ LcaReport
    \/ LcaCheckCancel
    \/ TsAggregate

ScanParked ==
    /\ scanIn = 0 /\ SbrCon = 0 /\ LoadingCon = 0 /\ problems = <<>> /\ scanPc = <<>>

ConSpecInit == ConInit /\ ScanParked /\ RelParked /\ ExtParked

SpecCon == ConSpecInit /\ [][ConNext]_vars

(***************************************************************************)
(* Properties of the contingency analysis                                  *)
(***************************************************************************)
\* C1: the events of one contingency group never remain applied when the next group
\* is evaluated: at the start of every iteration of the group loop, and when
\* linear_contingency_analysis has returned, the device statuses and injections of
\* nc are those of the circuit as compiled.
C1_GroupStateRestored ==
    conPc \in {"apply", "aggregate"} => nc = CompileNC(tsIt)

\* C5: the results a cancelled time-series run returns carry a cancelled flag set to
\* true, and the results of a run that was not cancelled do not.
C5_CancelledFlag ==
    conPc \in {"returned", "returnedEarly"} =>
        (tsResults.cancelled <=> conPc = "returnedEarly")

RECURSIVE ExpectedReport(_)
\* the report rows of groups 0..k-1, from the flows computed for them
ExpectedReport(k) ==
    IF k = 0 THEN <<>>
    ELSE ExpectedReport(k - 1) \o ReportRows(k - 1, lcaFlows[k], conIn.rates, NBr)

RowComplete(r) ==
    /\ resT.Sf[r] = lcaFlows[r + 1]
    /\ resT.Sbus[r] = lcaLocal.Pbus
    /\ resT.loading[r] = LoadingOf(lcaFlows[r + 1], conIn.rates)

RowInitial(r) ==
    /\ resT.Sf[r] = NewResults.Sf[r]
    /\ resT.Sbus[r] = NewResults.Sbus[r]
    /\ resT.loading[r] = NewResults.loading[r]

\* C6: is_cancel is consulted once per contingency group, after the group's Sf, Sbus
\* and loading rows and its report rows are written; when it answers true at group ic
\* the function returns with rows 0..ic complete and every later row at its initial
\* value.
C6_CancelBetweenGroups ==
    /\ (conPc \in {"apply", "writeSf", "writeSbus", "writeLoading", "report", "check"}
           => lcaPolls = lcaIc)
    /\ (conPc = "check" =>
           /\ RowComplete(lcaIc)
           /\ resT.report = ExpectedReport(lcaIc + 1))
    /\ (lcaReturn = "cancel" =>
           /\ lcaPolls = lcaIc + 1
           /\ \A r \in Cg : r <= lcaIc => RowComplete(r)
           /\ \A r \in Cg : r > lcaIc => RowInitial(r)
           /\ resT.report = ExpectedReport(lcaIc + 1))

C6_Witness ==
    /\ lcaReturn = "cancel"
    /\ conPc = "aggregate"
    /\ lcaIc + 1 < NCg
    /\ resT.Sf[lcaIc] # NewResults.Sf[lcaIc]
    /\ resT.report # <<>>

\* the step taken by TsAggregate (cancel() leaves the position of the driver alone)
AggregateStep == conPc = "aggregate" /\ conPc' # "aggregate"

\* C19: for every time row it and every branch k, overload_count[it, k] is the number
\* of contingencies whose absolute loading of branch k exceeds 1.0 at that time step
C19_OverloadCountPerBranch ==
    [][AggregateStep =>
        \A k \in Branch :
            tsResults'.overload_count[tsIt][k]
                = Cardinality({g \in Cg : OverOne(resT.loading[g][k])})]_vars

\* what does hold: every branch of the row carries the total over all contingencies and
\* all branches
OverloadCountIsTotal ==
    [][AggregateStep =>
        \A k \in Branch :
            tsResults'.overload_count[tsIt][k]
                = Cardinality({gm \in Cg \X Branch : OverOne(resT.loading[gm[1]][gm[2]])})]_vars

RECURSIVE GroupsRun(_, _)
\* the circuit and the flows after the groups 0 .. k - 1 of time index t have been
\* evaluated one after the other, as the group loop evaluates them
GroupsRun(t, k) ==
    IF k = 0 THEN [nc |-> CompileNC(t), flows |-> <<>>]
    ELSE LET prev == GroupsRun(t, k - 1)
             events == conIn.groups[k - 1]
             applied == SetConOrRaStatus(prev.nc, events)
             flows_n == GetFlows(GetPowerInjections(CompileNC(t)))
         IN IF HasInjectionContingencies(events)
            THEN [nc |-> applied.nc,
                  flows |-> Append(prev.flows,
                                   GetContingencyFlows(events, flows_n, applied.injections))]
            ELSE [nc |-> prev.nc,
                  flows |-> Append(prev.flows,
                                   GetContingencyFlows(events, flows_n, NoInjections))]

\* the flows of contingency group g in a complete evaluation of time index t
GroupFlowsAt(t, g) == GroupsRun(t, NCg).flows[g + 1]

\* the statistics of time row t computed from all contingency groups
RowFromAllGroups(t) ==
    /\ tsResults.max_flows[t] = MaxAbsPerCol([g \in Cg |-> GroupFlowsAt(t, g)])
    /\ tsResults.overload_count[t] =
          [m \in Branch |->
              CountNonzeroOver([g \in Cg |-> LoadingOf(GroupFlowsAt(t, g), conIn.rates)])]

\* time row t as the results object was created
RowAtInitialValue(t) ==
    /\ tsResults.max_flows[t] = NewTsResults.max_flows[t]
    /\ tsResults.overload_count[t] = NewTsResults.overload_count[t]

\* C27: when cancellation is observed while the contingencies of a time index are being
\* evaluated, no statistics computed from an incomplete set of contingencies are
\* published for it: in the returned results every time row is computed from all
\* contingency groups or left at its initial value
C27_NoPartialTimeRow ==
    conPc \in {"returned", "returnedEarly"} =>
        \A t \in Time : RowFromAllGroups(t) \/ RowAtInitialValue(t)

\* what is returned: the rows before the last time index are computed from all groups,
\* the rows after it are at their initial value, and the row of the last time index is
\* computed from whatever linear_contingency_analysis had written when it returned
LastRowFromWrittenGroups ==
    conPc \in {"returned", "returnedEarly"} =>
        /\ \A t \in Time : t < tsIt => RowFromAllGroups(t)
        /\ \A t \in Time : t > tsIt => RowAtInitialValue(t)
        /\ tsResults.max_flows[tsIt] = MaxAbsPerCol(resT.Sf)
        /\ tsResults.overload_count[tsIt] = [m \in Branch |-> CountNonzeroOver(resT.loading)]

(***************************************************************************)
(* Reliability: the grid of the study and the sampled states               *)
(***************************************************************************)
\* a two-bus grid: line 0 joins bus 0 and bus 1, generator 0 sits at bus 0,
\* batteries 0 and 1 at bus 1, load 0 at bus 0 and load 1 at bus 1
RBus == {0, 1}
RBranch == {0}
RGen == {0}
RBatt == {0, 1}
RLoad == {0, 1}
BranchF == [k \in RBranch |-> 0]
BranchT == [k \in RBranch |-> 1]
GenBus == [g \in RGen |-> 0]
BattBus == [b \in RBatt |-> 1]
LoadBus == [l \in RLoad |-> l]
LoadS == [l \in RLoad |-> l + 1]
BattEnom == [b \in RBatt |-> 2]
RelDt == [t \in 0 .. (Horizon - 1) |-> 1]

HTime == 0 .. (Horizon - 1)
Sample == 0 .. (NSim - 1)

RelModes == {"GenerationAdequacy", "GridMetrics"}

RelInputs ==
    [mode : RelModes,
     brActive : [RBranch -> BOOLEAN],
     genActive : [RGen -> BOOLEAN],
     battActive : [RBatt -> BOOLEAN]]

\* the MultiCircuit built from the inputs
GridOf(in) ==
    [brActive |-> in.brActive, genActive |-> in.genActive, battActive |-> in.battActive,
     loadS |-> LoadS]

\* compile_numerical_circuit_at(self.grid)
CompileRel(grid) ==
    [brActive |-> grid.brActive, genActive |-> grid.genActive,
     battActive |-> grid.battActive, enom |-> BattEnom, loadS |-> grid.loadS]

\* the states matrices one sample can draw: an on/off value per time step and device,
\* and whether a failure was counted for the generators / the branches
\* (battery 0 changes state freely, battery 1 keeps one state over the whole horizon)
StatesSamples ==
    [gen : [HTime -> [RGen -> BOOLEAN]],
     batt : {[t \in HTime |-> [b \in RBatt |-> IF b = 0 THEN m[t] ELSE c]] :
                m \in [HTime -> BOOLEAN], c \in BOOLEAN},
     br : [HTime -> [RBranch -> BOOLEAN]],
     genZeroLen : BOOLEAN]

AnyDown(mat, devs) == \E t \in HTime, k \in devs : ~mat[t][k]

\* gen_n_failures + br_n_failures (a down period of length zero counts as a failure)
FailuresCounted(smp) ==
    (IF AnyDown(smp.gen, RGen) \/ smp.genZeroLen THEN 1 ELSE 0)
        + (IF AnyDown(smp.br, RBranch) THEN 1 ELSE 0)

\* all_actives[tidx, :].sum() == all_actives.shape[1]
AllActiveAt(smp, t) ==
    /\ \A g \in RGen : smp.gen[t][g]
    /\ \A b \in RBatt : smp.batt[t][b]
    /\ \A k \in RBranch : smp.br[t][k]

RECURSIVE FindTimeBlocksFrom(_, _, _, _)
\* find_time_blocks: the loop over tidx with its two lists
FindTimeBlocksFrom(smp, tidx, blocks, idx_list) ==
    IF tidx = Horizon THEN blocks
    ELSE IF ~AllActiveAt(smp, tidx)
         THEN FindTimeBlocksFrom(smp, tidx + 1, blocks, Append(idx_list, tidx))
         ELSE IF Len(idx_list) > 0
              THEN FindTimeBlocksFrom(smp, tidx + 1, Append(blocks, idx_list), <<>>)
              ELSE FindTimeBlocksFrom(smp, tidx + 1, blocks, idx_list)

FindTimeBlocks(smp) == FindTimeBlocksFrom(smp, 0, <<>>, <<>>)

\* nc2.split_into_islands(ignore_single_node_islands=False): the bus sets
SplitIntoIslands(n) ==
    IF \E k \in RBranch : n.brActive[k] THEN << {0, 1} >> ELSE << {0}, {1} >>

RECURSIVE SumOver(_, _)
SumOver(f, S) ==
    IF S = {} THEN 0
    ELSE LET x == CHOOSE y \in S : TRUE IN f[x] + SumOver(f, S \ {x})

RECURSIVE DepleteBatteries(_, _, _)
\* the loop over island.battery_data.original_idx; acc = [unsat, e]
DepleteBatteries(acc, batts, i) ==
    IF i \notin batts THEN
        IF \E j \in batts : j > i THEN DepleteBatteries(acc, batts, i + 1) ELSE acc
    ELSE IF acc.unsat > acc.e[i]
         THEN DepleteBatteries([unsat |-> acc.unsat - acc.e[i],
                                e |-> [acc.e EXCEPT ![i] = 0]], batts, i + 1)
         ELSE DepleteBatteries([unsat |-> 0,
                                e |-> [acc.e EXCEPT ![i] = @ - acc.unsat]], batts, i + 1)

\* the body of `for island in islands`; acc = [E, e]
IslandEnergy(acc, n, island, dt) ==
    LET gens == {g \in RGen : GenBus[g] \in island}
        batts == {b \in RBatt : BattBus[b] \in island}
        loads == {l \in RLoad : LoadBus[l] \in island}
        demand == SumOver(n.loadS, loads) * dt
    IN
    IF \E g \in gens : n.genActive[g] THEN acc
    ELSE IF ~(\E b \in batts : n.battActive[b])
         THEN [E |-> acc.E + demand, e |-> acc.e]
         ELSE LET d == DepleteBatteries([unsat |-> demand, e |-> acc.e], batts, 0)
              IN [E |-> acc.E + d.unsat, e |-> d.e]

RECURSIVE IslandsEnergy(_, _, _, _, _)
IslandsEnergy(acc, n, islands, dt, k) ==
    IF k > Len(islands) THEN acc
    ELSE IslandsEnergy(IslandEnergy(acc, n, islands[k], dt), n, islands, dt, k + 1)

\* "modify active states": the sampled states of time step t
ModifyActiveStates(n2, smp, t) ==
    [n2 EXCEPT !.brActive = smp.br[t], !.genActive = smp.gen[t],
               !.battActive = smp.batt[t]]

\* the revert that leaves the battery states of the sample in place
RevertActiveStatesNoBattery(n2, n) ==
    [n2 EXCEPT !.brActive = n.brActive, !.genActive = n.genActive]

\* "revert active states"
RevertActiveStates(n2, n) ==
    [n2 EXCEPT !.brActive = n.brActive, !.genActive = n.genActive,
               !.battActive = n.battActive]

\* a cancel() that toggles the flag
CancelFlagToggle(flag) == ~flag

\* cancel(): self.__cancel__ = True
CancelFlag(flag) == TRUE

RECURSIVE CumSum(_, _)
CumSum(arr, k) == IF k < 0 THEN 0 ELSE CumSum(arr, k - 1) + arr[k]

\* np.cumsum(arr) / (np.arange(len(arr)) + 1)
RunningMean(arr) == [k \in Sample |-> Div(CumSum(arr, k), k + 1)]

\* ReliabilityResults(nsim)
NewRelResults ==
    [LOLE_evolution |-> [k \in Sample |-> ZeroQ],
     lole_evolution |-> <<>>]

NoLoc == [smp |-> 0, blocks |-> <<>>, blk |-> 0, tpos |-> 0, batt_e_nom |-> BattEnom]

(***************************************************************************)
(* ReliabilityStudyDriver: run() in one thread, cancel() from another      *)
(***************************************************************************)
RelInit ==
    /\ relIn \in RelInputs
    /\ relCancel = FALSE
    /\ relCalls = 0
    /\ relCancelPc = "none"
    /\ relPc = "idle"
    /\ relSim = 0
    /\ relGrid = GridOf(relIn)
    /\ relNc = 0
    /\ relNc2 = 0
    /\ relLoc = NoLoc
    /\ relENS = [k \in Sample |-> 0]
    /\ relStarted = [k \in Sample |-> "no"]
    /\ relResults = NewRelResults

\* the mark of a sample that starts now: "late" when cancel() was called earlier,
\* while run() was executing
StartMark ==
    IF relCancel /\ relCancelPc \notin {"none", "idle"} THEN "late" ELSE "clean"

\* cancel()
RelCancel ==
    /\ relPc # "parked"
    /\ relCalls < MaxCancelCalls
    /\ relCancel' = CancelFlag(relCancel)
    /\ relCalls' = relCalls + 1
    /\ relCancelPc' = IF relCalls = 0 THEN relPc ELSE relCancelPc
    /\ UNCHANGED <<relIn, relPc, relSim, relGrid, relNc, relNc2, relLoc, relENS,
                   relStarted, relResults, relOthers>>

\* run(): the mode is dispatched; run_grid_reliability compiles nc and copies it
RelRun ==
    /\ relPc = "idle"
    /\ IF relIn.mode = "GenerationAdequacy"
       THEN /\ relPc' = "adequacy"
            /\ UNCHANGED <<relNc, relNc2>>
       ELSE /\ relPc' = "sampleHead"
            /\ relNc' = CompileRel(relGrid)
            /\ relNc2' = CompileRel(relGrid)
    /\ UNCHANGED <<relIn, relCancel, relCalls, relCancelPc, relSim, relGrid, relLoc, relENS,
                   relStarted, relResults, relOthers>>

\* reliability_simulation: iteration sim_idx of the prange loop (no flag is read)
RelAdequacySample(k) ==
    /\ relPc = "adequacy"
    /\ relStarted[k] = "no"
    /\ relStarted' = [relStarted EXCEPT ![k] = StartMark]
    /\ \E lost \in 0 .. 1 : relENS' = [relENS EXCEPT ![k] = lost]
    /\ UNCHANGED <<relIn, relCancel, relCalls, relCancelPc, relPc, relSim, relGrid, relNc, relNc2,
                   relLoc, relResults, relOthers>>

\* run_adequacy_reliability after reliability_simulation returned, and the end of run()
RelAdequacyFinish ==
    /\ relPc = "adequacy"
    /\ \A k \in Sample : relStarted[k] # "no"
    /\ relResults' = [relResults EXCEPT !.lole_evolution = RunningMean(relENS)]
    /\ relPc' = "done"
    /\ UNCHANGED <<relIn, relCancel, relCalls, relCancelPc, relSim, relGrid, relNc, relNc2, relLoc,
                   relENS, relStarted, relOthers>>

\* head of `for sim_idx in range(self.n_sim)`: the cancel test, the three states
\* matrices and the failure blocks
RelSampleHead ==
    /\ relPc = "sampleHead"
    /\ relSim < NSim
    /\ IF relCancel
       THEN /\ relPc' = "done"
            /\ UNCHANGED <<relLoc, relStarted>>
       ELSE /\ relStarted' = [relStarted EXCEPT ![relSim] = StartMark]
            /\ \E smp \in StatesSamples :
                 LET blocks == IF FailuresCounted(smp) > 0
                               THEN FindTimeBlocks(smp) ELSE <<>>
                 IN
                 IF Len(blocks) > 0
                 THEN /\ relLoc' = [smp |-> smp, blocks |-> blocks, blk |-> 1,
                                    tpos |-> 1, batt_e_nom |-> relNc.enom]
                      /\ relPc' = "apply"
                 ELSE /\ relLoc' = NoLoc
                      /\ relPc' = "progress"
    /\ UNCHANGED <<relIn, relCancel, relCalls, relCancelPc, relSim, relGrid, relNc, relNc2, relENS,
                   relResults, relOthers>>

\* "modify active states" of time step t of the block
RelApply ==
    /\ relPc = "apply"
    /\ relNc2' = ModifyActiveStates(relNc2, relLoc.smp, relLoc.blocks[relLoc.blk][relLoc.tpos])
    /\ relPc' = "evaluate"
    /\ UNCHANGED <<relIn, relCancel, relCalls, relCancelPc, relSim, relGrid, relNc, relLoc, relENS,
                   relStarted, relResults, relOthers>>

\* the islands of the step, the energy not supplied, the revert, and the next step
RelEvaluate ==
    /\ relPc = "evaluate"
    /\ LET t == relLoc.blocks[relLoc.blk][relLoc.tpos]
           res == IslandsEnergy([E |-> 0, e |-> relLoc.batt_e_nom], relNc2,
                                SplitIntoIslands(relNc2), RelDt[t], 1)
       IN
       /\ relENS' = [relENS EXCEPT ![relSim] = @ + res.E]
       /\ relNc2' = RevertActiveStates(relNc2, relNc)
       /\ IF relLoc.tpos < Len(relLoc.blocks[relLoc.blk])
          THEN /\ relLoc' = [relLoc EXCEPT !.tpos = @ + 1, !.batt_e_nom = res.e]
               /\ relPc' = "apply"
          ELSE IF relLoc.blk < Len(relLoc.blocks)
          THEN /\ relLoc' = [relLoc EXCEPT !.blk = @ + 1, !.tpos = 1,
                                           !.batt_e_nom = relNc.enom]
               /\ relPc' = "apply"
          ELSE /\ relLoc' = NoLoc
               /\ relPc' = "progress"
    /\ UNCHANGED <<relIn, relCancel, relCalls, relCancelPc, relSim, relGrid, relNc, relStarted,
                   relResults, relOthers>>

\* self.report_progress2(current=sim_idx, total=self.n_sim) and the next sample
RelProgress ==
    /\ relPc = "progress"
    /\ relSim' = relSim + 1
    /\ relPc' = "sampleHead"
    /\ UNCHANGED <<relIn, relCancel, relCalls, relCancelPc, relGrid, relNc, relNc2, relLoc, relENS,
                   relStarted, relResults, relOthers>>

\* after the loop: self.results.lole_evolution = ..., and the end of run()
RelFinish ==
    /\ relPc = "sampleHead"
    /\ relSim = NSim
    /\ relResults' = [relResults EXCEPT !.lole_evolution = RunningMean(relENS)]
    /\ relPc' = "done"
    /\ UNCHANGED <<relIn, relCancel, relCalls, relCancelPc, relSim, relGrid, relNc, relNc2, relLoc,
                   relENS, relStarted, relOthers>>

RelAdequacyStep == \E k \in Sample : RelAdequacySample(k)

RelNext ==
    \/ RelCancel
    \/ RelRun
    \/ RelAdequacyStep
    \/ RelAdequacyFinish
    \/ RelSampleHead
    \/ RelApply
    \/ RelEvaluate
    \/ RelProgress
    \/ RelFinish

RelSpecInit == RelInit /\ ScanParked /\ ConParked /\ ExtParked

SpecRel == RelSpecInit /\ [][RelNext]_vars

(***************************************************************************)
(* Properties of the reliability driver                                    *)
(***************************************************************************)
\* C7: in either mode the flag is checked between Monte-Carlo samples: once cancel()
\* has been called while run() executes, no further sample is started.
C7_NoSampleAfterCancel ==
    \A k \in Sample : relStarted[k] # "late"

\* C8: cancellation is idempotent: a cancel() call leaves the flag set, and a call on
\* a driver that is already cancelled changes nothing of the driver.
C8_CancelIdempotent ==
    [][RelCancel =>
         /\ relCancel' = TRUE
         /\ (relCancel =>
               UNCHANGED <<relIn, relCancel, relPc, relSim, relGrid, relNc, relNc2,
                           relLoc, relENS, relStarted, relResults>>)]_vars

C8_Witness ==
    /\ relCalls >= 2
    /\ relCancel
    /\ relPc = "done"
    /\ relCancelPc \notin {"none", "idle", "done"}

SameActiveFlags(n2, n) ==
    /\ n2.brActive = n.brActive
    /\ n2.genActive = n.genActive
    /\ n2.battActive = n.battActive

\* C10: during run_grid_reliability the MultiCircuit and the base circuit nc are not
\* modified, and at every sample boundary and on return the branch, generator and
\* battery active flags of nc2 equal those of nc.
C10_GridAndNcUntouched ==
    /\ relGrid = GridOf(relIn)
    /\ (relIn.mode = "GridMetrics" /\ relPc # "idle") =>
          /\ relNc = CompileRel(GridOf(relIn))
          /\ (relPc \in {"sampleHead", "progress", "done"} =>
                SameActiveFlags(relNc2, relNc))

C10_Witness ==
    /\ relIn.mode = "GridMetrics"
    /\ relPc = "sampleHead"
    /\ relSim >= 1
    /\ relENS[0] > 0
    /\ \E b \in RBatt : ~relNc.battActive[b]
    /\ \E g \in RGen : ~relNc.genActive[g]

\* the energy one island leaves unserved at a time step: nothing with an active
\* generator, the whole demand without any active source, otherwise the part of the
\* demand that the remaining energy of the batteries in `usable` does not cover
IslandDeficit(n, e, island, dt, usable) ==
    LET gens == {g \in RGen : GenBus[g] \in island}
        batts == {b \in RBatt : BattBus[b] \in island}
        loads == {l \in RLoad : LoadBus[l] \in island}
        demand == SumOver(n.loadS, loads) * dt
        avail == SumOver(e, batts \cap usable)
    IN IF \E g \in gens : n.genActive[g] THEN 0
       ELSE IF ~(\E b \in batts : n.battActive[b]) THEN demand
       ELSE IF demand > avail THEN demand - avail ELSE 0

RECURSIVE StepDeficit(_, _, _, _, _, _)
\* the sum of IslandDeficit over the islands k, k + 1, ...
StepDeficit(n, e, islands, dt, usable, k) ==
    IF k > Len(islands) THEN 0
    ELSE IslandDeficit(n, e, islands[k], dt, usable)
            + StepDeficit(n, e, islands, dt, usable, k + 1)

\* the step taken by RelEvaluate (cancel() leaves the position of run() alone)
EvaluateStep == relPc = "evaluate" /\ relPc' # "evaluate"

\* C17: at every evaluated time step an island without any active source adds its whole
\* load times dt to the energy not supplied, an island whose active batteries cannot
\* cover the demand adds exactly the deficit, and no remaining battery energy drops
\* below zero
C17_EnergyNotSupplied ==
    [][EvaluateStep =>
        /\ relENS'[relSim] - relENS[relSim]
              = StepDeficit(relNc2, relLoc.batt_e_nom, SplitIntoIslands(relNc2),
                            RelDt[relLoc.blocks[relLoc.blk][relLoc.tpos]],
                            {b \in RBatt : relNc2.battActive[b]}, 1)
        /\ \A b \in RBatt : relLoc'.batt_e_nom[b] >= 0]_vars

\* what does hold: the deficit is taken against the remaining energy of every battery of
\* the island, the inactive ones included
DeficitAgainstAllBatteries ==
    [][EvaluateStep =>
        /\ relENS'[relSim] - relENS[relSim]
              = StepDeficit(relNc2, relLoc.batt_e_nom, SplitIntoIslands(relNc2),
                            RelDt[relLoc.blocks[relLoc.blk][relLoc.tpos]], RBatt, 1)
        /\ \A b \in RBatt : relLoc'.batt_e_nom[b] >= 0]_vars

\* run() went through the assignment that follows the loop over the samples
RunCompleted == relPc = "done" /\ relResults.lole_evolution # <<>>

\* C18: after run() completes, results.LOLE_evolution (the array served by mdl for the
\* LOLE result type) is the running mean of the per-sample values
C18_LoleEvolutionIsRunningMean ==
    RunCompleted =>
        \A k \in Sample :
            QEq(relResults.LOLE_evolution[k], Div(CumSum(relENS, k), k + 1))

\* what does hold: the running mean is stored in a new attribute lole_evolution, and
\* LOLE_evolution keeps the zeros of the constructor
LoleEvolutionStaysZero ==
    RunCompleted =>
        /\ \A k \in Sample : QEq(relResults.LOLE_evolution[k], ZeroQ)
        /\ \A k \in Sample :
              QEq(relResults.lole_evolution[k], Div(CumSum(relENS, k), k + 1))

(***************************************************************************)
(* Ward reduction: get_reduction_sets_1 and ward_standard_reduction        *)
(***************************************************************************)
NWBus == 4      \* number of buses of the grid that is reduced

WBus == 0 .. (NWBus - 1)

RECURSIVE SortedSeq(_)
\* np.sort(np.array(list(s))): the elements of a set of integers in increasing order
SortedSeq(S) ==
    IF S = {} THEN <<>>
    ELSE LET mn == CHOOSE x \in S : \A y \in S : x <= y
         IN <<mn>> \o SortedSeq(S \ {mn})

\* a branch from bus f to bus t, coded as one integer
BranchCode(f, t) == f * NWBus + t

WardBranchCodes == {BranchCode(f, t) : f \in WBus, t \in WBus} \ {BranchCode(b, b) : b \in WBus}

\* the grids (any set of branches, at most one per pair of buses, isolated buses
\* included) and the bus indices to reduce
WardInputs ==
    [branches : SUBSET {c \in WardBranchCodes : c \div NWBus < c % NWBus},
     reduction_bus_indices : SUBSET WBus]

\* nc.nbr
WardNbr(in) == Cardinality(in.branches)

\* nc.passive_branch_data.F[k] and T[k]
WardF(in, k) == SortedSeq(in.branches)[k + 1] \div NWBus
WardT(in, k) == SortedSeq(in.branches)[k + 1] % NWBus

\* the MultiCircuit before the reduction: every bus carries one load
WardGridOf(in) ==
    [buses |-> WBus,
     branches |-> in.branches,
     loads |-> [n \in 1 .. NWBus |-> [name |-> "load", bus |-> n - 1]],
     shunts |-> <<>>,
     reactances |-> <<>>]

\* the body of the loop over the branches of get_reduction_sets_1
ReductionSetsBranch(loc, f, t) ==
    IF f \in loc.external_set
    THEN IF t \in loc.external_set
         THEN [loc EXCEPT !.k = @ + 1]
         ELSE [loc EXCEPT !.k = @ + 1,
                          !.boundary_set = @ \cup {t},
                          !.boundary_branches = Append(@, loc.k)]
    ELSE IF t \in loc.external_set
         THEN [loc EXCEPT !.k = @ + 1,
                          !.boundary_set = @ \cup {f},
                          !.boundary_branches = Append(@, loc.k)]
         ELSE [loc EXCEPT !.k = @ + 1,
                          !.internal_set = @ \cup {f, t}]

\* buses cannot be in both the internal and boundary set; convert to arrays and sort
ReductionSetsReturn(loc) ==
    [loc EXCEPT !.internal_set = @ \ loc.boundary_set,
                !.e_buses = SortedSeq(loc.external_set),
                !.b_buses = SortedSeq(loc.boundary_set),
                !.i_buses = SortedSeq(loc.internal_set \ loc.boundary_set)]

\* the three early exits of ward_standard_reduction
WardExitsEarly(loc) ==
    \/ Len(loc.e_buses) = 0
    \/ Len(loc.i_buses) = 0
    \/ Len(loc.b_buses) = 0

\* both triangles of the boundary matrix
InnerRangeFull(i, nb) == 0 .. (nb - 1)

\* for j in range(i): only the lower triangle is traversed
InnerRange(i, nb) == 0 .. (i - 1)

\* the series reactances added for boundary position i
ReactancesFor(i, b_buses) ==
    LET js == SortedSeq({j \in InnerRange(i, Len(b_buses)) : i # j})
    IN [n \in 1 .. Len(js) |->
            [name |-> "Equivalent boundary impedance",
             bus_from |-> b_buses[i + 1], bus_to |-> b_buses[js[n] + 1]]]

\* grid.add_shunt
AddShunt(g, bus, name) ==
    [g EXCEPT !.shunts = Append(@, [name |-> name, bus |-> bus])]

\* grid.add_series_reactance, once per element of rs
AddSeriesReactances(g, rs) ==
    [g EXCEPT !.reactances = @ \o rs]

\* grid.add_load
AddLoad(g, bus, name) ==
    [g EXCEPT !.loads = Append(@, [name |-> name, bus |-> bus])]

\* grid.delete_bus(obj, delete_associated=True): the bus, every injection attached to it
\* and every branch with an end at it
DeleteBus(g, bus) ==
    [buses |-> g.buses \ {bus},
     branches |-> {c \in g.branches : c \div NWBus # bus /\ c % NWBus # bus},
     loads |-> SelectSeq(g.loads, LAMBDA d : d.bus # bus),
     shunts |-> SelectSeq(g.shunts, LAMBDA d : d.bus # bus),
     reactances |-> SelectSeq(g.reactances,
                              LAMBDA d : d.bus_from # bus /\ d.bus_to # bus)]

WardInit ==
    /\ wardIn \in WardInputs
    /\ wardPc = "sets"
    /\ wardLoc = [k |-> 0,
                  external_set |-> wardIn.reduction_bus_indices,
                  boundary_set |-> {},
                  internal_set |-> {},
                  boundary_branches |-> <<>>,
                  e_buses |-> <<>>, b_buses |-> <<>>, i_buses |-> <<>>,
                  i |-> 0]
    /\ wardGrid = WardGridOf(wardIn)

\* one iteration of `for k in range(nc.nbr)`
WardSetsBranch ==
    /\ wardPc = "sets"
    /\ wardLoc.k < WardNbr(wardIn)
    /\ wardLoc' = ReductionSetsBranch(wardLoc, WardF(wardIn, wardLoc.k),
                                      WardT(wardIn, wardLoc.k))
    /\ UNCHANGED <<wardIn, wardPc, wardGrid, wardOthers>>

\* get_reduction_sets_1 returns; ward_standard_reduction takes an early exit or goes on
WardSetsReturn ==
    /\ wardPc = "sets"
    /\ wardLoc.k = WardNbr(wardIn)
    /\ wardLoc' = ReductionSetsReturn(wardLoc)
    /\ wardPc' = IF WardExitsEarly(ReductionSetsReturn(wardLoc))
                 THEN "returnedEarly" ELSE "boundary"
    /\ UNCHANGED <<wardIn, wardGrid, wardOthers>>

\* one iteration of `for i in range(len(b_buses))`: the shunt and the reactances of row i
WardAddBoundary ==
    /\ wardPc = "boundary"
    /\ wardLoc.i < Len(wardLoc.b_buses)
    /\ wardGrid' = AddSeriesReactances(
                       AddShunt(wardGrid, wardLoc.b_buses[wardLoc.i + 1], "Equivalent shunt"),
                       ReactancesFor(wardLoc.i, wardLoc.b_buses))
    /\ IF wardLoc.i + 1 = Len(wardLoc.b_buses)
       THEN wardLoc' = [wardLoc EXCEPT !.i = 0] /\ wardPc' = "loads"
       ELSE wardLoc' = [wardLoc EXCEPT !.i = @ + 1] /\ wardPc' = wardPc
    /\ UNCHANGED <<wardIn, wardOthers>>

\* one iteration of `for ib, i in enumerate(b_buses)`
WardAddLoad ==
    /\ wardPc = "loads"
    /\ wardLoc.i < Len(wardLoc.b_buses)
    /\ wardGrid' = AddLoad(wardGrid, wardLoc.b_buses[wardLoc.i + 1], "compensation")
    /\ IF wardLoc.i + 1 = Len(wardLoc.b_buses)
       THEN wardLoc' = [wardLoc EXCEPT !.i = 0] /\ wardPc' = "delete"
       ELSE wardLoc' = [wardLoc EXCEPT !.i = @ + 1] /\ wardPc' = wardPc
    /\ UNCHANGED <<wardIn, wardOthers>>

\* one iteration of `for bus in to_be_deleted`
WardDeleteBus ==
    /\ wardPc = "delete"
    /\ wardLoc.i < Len(wardLoc.e_buses)
    /\ wardGrid' = DeleteBus(wardGrid, wardLoc.e_buses[wardLoc.i + 1])
    /\ IF wardLoc.i + 1 = Len(wardLoc.e_buses)
       THEN wardLoc' = [wardLoc EXCEPT !.i = 0] /\ wardPc' = "returned"
       ELSE wardLoc' = [wardLoc EXCEPT !.i = @ + 1] /\ wardPc' = wardPc
    /\ UNCHANGED <<wardIn, wardOthers>>

WardNext ==
    \/ WardSetsBranch
    \/ WardSetsReturn
    \/ WardAddBoundary
    \/ WardAddLoad
    \/ WardDeleteBus

WardSpecInit == WardInit /\ ScanParked /\ ConParked /\ RelParked /\ PtdfParked /\ CompParked /\ FtbParked /\ EulerParked /\ BuildParked /\ StabParked /\ SelParked /\ HostParked /\ B2dParked

SpecWard == WardSpecInit /\ [][WardNext]_vars

(***************************************************************************)
(* Properties of the Ward reduction                                        *)
(***************************************************************************)
\* the arrays returned by get_reduction_sets_1, as sets
WardExternal == Range(wardLoc.e_buses)
WardBoundary == Range(wardLoc.b_buses)
WardInternal == Range(wardLoc.i_buses)

\* bus b has at least one branch to an external bus
TouchesExternal(b) ==
    \E c \in wardIn.branches :
        \/ c \div NWBus = b /\ c % NWBus \in wardIn.reduction_bus_indices
        \/ c % NWBus = b /\ c \div NWBus \in wardIn.reduction_bus_indices

\* C11: the sets returned by get_reduction_sets_1 partition the bus set; boundary holds
\* exactly the non-external buses with a branch to an external bus, internal exactly the
\* non-external buses with none
C11_ReductionSetsPartition ==
    wardPc \in {"returnedEarly", "boundary", "loads", "delete", "returned"} =>
        /\ WardExternal \cap WardBoundary = {}
        /\ WardExternal \cap WardInternal = {}
        /\ WardBoundary \cap WardInternal = {}
        /\ WardExternal \cup WardBoundary \cup WardInternal = WBus
        /\ WardBoundary = {b \in WBus \ WardExternal : TouchesExternal(b)}
        /\ WardInternal = {b \in WBus \ WardExternal : ~TouchesExternal(b)}

\* the returned sets are pairwise disjoint and boundary is exact: what does hold
ReductionSetsDisjoint ==
    wardPc \in {"returnedEarly", "boundary", "loads", "delete", "returned"} =>
        /\ WardExternal \cap WardBoundary = {}
        /\ WardExternal \cap WardInternal = {}
        /\ WardBoundary \cap WardInternal = {}
        /\ WardBoundary = {b \in WBus \ WardExternal : TouchesExternal(b)}
        /\ WardInternal \subseteq {b \in WBus \ WardExternal : ~TouchesExternal(b)}

\* the number of devices of a sequence that satisfy a test
CountSeq(s, Test(_)) == Cardinality({n \in DOMAIN s : Test(s[n])})

\* C12: a reduction that does not exit early leaves one equivalent shunt and one
\* equivalent load at each boundary bus, one series reactance per unordered pair of
\* distinct boundary buses, no external bus and no device attached to an external bus
C12_WardEquivalentDevices ==
    wardPc = "returned" =>
        /\ \A b \in WardBoundary :
              /\ CountSeq(wardGrid.shunts, LAMBDA d : d.bus = b) = 1
              /\ CountSeq(wardGrid.loads,
                          LAMBDA d : d.bus = b /\ d.name = "compensation") = 1
        /\ Len(wardGrid.shunts) = Cardinality(WardBoundary)
        /\ CountSeq(wardGrid.loads, LAMBDA d : d.name = "compensation")
              = Cardinality(WardBoundary)
        /\ \A a \in WardBoundary, b \in WardBoundary :
              a < b => CountSeq(wardGrid.reactances,
                                LAMBDA d : {d.bus_from, d.bus_to} = {a, b}) = 1
        /\ 2 * Len(wardGrid.reactances)
              = Cardinality(WardBoundary) * (Cardinality(WardBoundary) - 1)
        /\ wardGrid.buses \cap WardExternal = {}
        /\ \A n \in DOMAIN wardGrid.loads : wardGrid.loads[n].bus \notin WardExternal
        /\ \A n \in DOMAIN wardGrid.shunts : wardGrid.shunts[n].bus \notin WardExternal
        /\ \A n \in DOMAIN wardGrid.reactances :
              /\ wardGrid.reactances[n].bus_from \notin WardExternal
              /\ wardGrid.reactances[n].bus_to \notin WardExternal
        /\ \A c \in wardGrid.branches :
              c \div NWBus \notin WardExternal /\ c % NWBus \notin WardExternal

\* a finished reduction with at least two boundary buses and two external buses
C12_Witness ==
    /\ wardPc = "returned"
    /\ Cardinality(WardBoundary) >= 2
    /\ Len(wardGrid.reactances) >= 1
    /\ Len(wardGrid.loads) < NWBus + Cardinality(WardBoundary)

(***************************************************************************)
(* PTDF reduction: ptdf_reduction and ptdf_reduction_with_islands          *)
(* (aggregate_devices = False, grid without time series)                   *)
(***************************************************************************)
PtdfVariants == {"ptdf_reduction", "ptdf_reduction_with_islands"}

\* the PTDF matrices handed to the call: PTDF[branch][bus] in {-1, 0, 1}
PtdfMatrices ==
    {[k \in 0 .. (NWBus * NWBus) |-> [j \in WBus |-> ((k + j + v) % 3) - 1]] : v \in {0, 1}}

PtdfInputs ==
    [branches : SUBSET {c \in WardBranchCodes : c \div NWBus < c % NWBus},
     reduction_bus_indices : SUBSET WBus,
     PTDF : PtdfMatrices,
     variant : PtdfVariants]

\* the kind of the injection device that the grid carries at each bus
DeviceKindAt(b) ==
    CASE b % 3 = 0 -> "generator"
      [] b % 3 = 1 -> "load"
      [] OTHER -> "external_grid"

\* the MultiCircuit before the reduction: one injection device per bus with P = 3, Q = 2
\* (id is the identity of the object, src the device a mirrored copy was made from)
PtdfGridOf(in) ==
    [buses |-> WBus,
     branches |-> in.branches,
     devices |-> [n \in 1 .. NWBus |->
                    [id |-> n - 1, src |-> -1, kind |-> DeviceKindAt(n - 1),
                     bus |-> n - 1, P |-> 3, Q |-> 2, comment |-> ""]]]

RECURSIVE ReductionSetsLoop(_, _)
\* grid.get_reduction_sets: the loop of get_reduction_sets_1 over all the branches
ReductionSetsLoop(loc, in) ==
    IF loc.k = WardNbr(in) THEN ReductionSetsReturn(loc)
    ELSE ReductionSetsLoop(ReductionSetsBranch(loc, WardF(in, loc.k), WardT(in, loc.k)), in)

GetReductionSets(in) ==
    ReductionSetsLoop([k |-> 0,
                       external_set |-> in.reduction_bus_indices,
                       boundary_set |-> {},
                       internal_set |-> {},
                       boundary_branches |-> <<>>,
                       e_buses |-> <<>>, b_buses |-> <<>>, i_buses |-> <<>>,
                       i |-> 0], in)

\* abs(ptdf_val) > tol, tol = 1e-8, for integer values of the PTDF
AboveTol(v) == Abs(v) > 0

MirrorComment(kind) ==
    IF kind = "generator" THEN "PTDF reduced equivalent generator"
    ELSE "PTDF reduced equivalent load"

\* the body of `for b in range(len(b_buses))` for the device at position id + 1
MirrorAtBoundary(g, id, b, in, loc) ==
    LET elm == g.devices[id + 1]
        bus_idx == loc.b_buses[b + 1]
        branch_idx == loc.boundary_branches[b + 1]
        ptdf_val == in.PTDF[branch_idx][bus_idx]
        new_elm == [elm EXCEPT !.src = id,
                               !.bus = bus_idx,
                               !.P = ptdf_val * elm.P,
                               !.Q = IF elm.kind = "load" THEN ptdf_val * elm.Q ELSE @,
                               !.comment = MirrorComment(elm.kind)]
        \* elm.bus = bus, in ptdf_reduction only
        moved == IF in.variant = "ptdf_reduction"
                 THEN [g EXCEPT !.devices[id + 1].bus = bus_idx]
                 ELSE g
    IN IF AboveTol(ptdf_val) /\ elm.kind \in {"generator", "load"}
       THEN [moved EXCEPT !.devices = Append(@, new_elm)]
       ELSE g

RECURSIVE MirrorLoop(_, _, _, _, _)
\* the iterations b, b + 1, ... of the loop over the boundary buses
MirrorLoop(g, id, b, in, loc) ==
    IF b >= Len(loc.b_buses) THEN g
    ELSE MirrorLoop(MirrorAtBoundary(g, id, b, in, loc), id, b + 1, in, loc)

\* grid.delete_bus(obj, delete_associated=True) on the grid of injection devices
DeleteBusWithDevices(g, bus) ==
    [buses |-> g.buses \ {bus},
     branches |-> {c \in g.branches : c \div NWBus # bus /\ c % NWBus # bus},
     devices |-> SelectSeq(g.devices, LAMBDA d : d.bus # bus)]

PtdfInit ==
    /\ ptdfIn \in PtdfInputs
    /\ ptdfPc = "sets"
    /\ ptdfLoc = [d |-> 0, i |-> 0, e_buses |-> <<>>, b_buses |-> <<>>,
                  i_buses |-> <<>>, boundary_branches |-> <<>>]
    /\ ptdfGrid = PtdfGridOf(ptdfIn)

\* grid.get_reduction_sets and the three early exits
PtdfSets ==
    /\ ptdfPc = "sets"
    /\ LET sets == GetReductionSets(ptdfIn)
       IN /\ ptdfLoc' = [ptdfLoc EXCEPT !.e_buses = sets.e_buses,
                                        !.b_buses = sets.b_buses,
                                        !.i_buses = sets.i_buses,
                                        !.boundary_branches = sets.boundary_branches]
          /\ ptdfPc' = IF WardExitsEarly(sets) THEN "returnedEarly" ELSE "devices"
    /\ UNCHANGED <<ptdfIn, ptdfGrid, ptdfOthers>>

\* one iteration of `for elm in grid.get_injection_devices()`
PtdfDevice ==
    /\ ptdfPc = "devices"
    /\ ptdfLoc.d < NWBus
    /\ ptdfGrid' = IF ptdfGrid.devices[ptdfLoc.d + 1].bus \in Range(ptdfLoc.e_buses)
                   THEN MirrorLoop(ptdfGrid, ptdfLoc.d, 0, ptdfIn, ptdfLoc)
                   ELSE ptdfGrid
    /\ IF ptdfLoc.d + 1 = NWBus
       THEN ptdfLoc' = [ptdfLoc EXCEPT !.d = @ + 1] /\ ptdfPc' = "delete"
       ELSE ptdfLoc' = [ptdfLoc EXCEPT !.d = @ + 1] /\ ptdfPc' = ptdfPc
    /\ UNCHANGED <<ptdfIn, ptdfOthers>>

\* one iteration of `for bus in to_be_deleted`
PtdfDeleteBus ==
    /\ ptdfPc = "delete"
    /\ ptdfLoc.i < Len(ptdfLoc.e_buses)
    /\ ptdfGrid' = DeleteBusWithDevices(ptdfGrid, ptdfLoc.e_buses[ptdfLoc.i + 1])
    /\ IF ptdfLoc.i + 1 = Len(ptdfLoc.e_buses)
       THEN ptdfLoc' = [ptdfLoc EXCEPT !.i = @ + 1] /\ ptdfPc' = "returned"
       ELSE ptdfLoc' = [ptdfLoc EXCEPT !.i = @ + 1] /\ ptdfPc' = ptdfPc
    /\ UNCHANGED <<ptdfIn, ptdfOthers>>

PtdfNext ==
    \/ PtdfSets
    \/ PtdfDevice
    \/ PtdfDeleteBus

PtdfSpecInit == PtdfInit /\ ScanParked /\ ConParked /\ RelParked /\ WardParked /\ CompParked /\ FtbParked /\ EulerParked /\ BuildParked /\ StabParked /\ SelParked /\ HostParked /\ B2dParked

SpecPtdf == PtdfSpecInit /\ [][PtdfNext]_vars

(***************************************************************************)
(* Properties of the PTDF reduction                                        *)
(***************************************************************************)
PtdfExternal == Range(ptdfLoc.e_buses)

\* branch number k (in nc order) joins boundary bus b to an external bus
IsAttachment(k, b) ==
    LET f == WardF(ptdfIn, k)
        t == WardT(ptdfIn, k)
    IN \/ f = b /\ t \in ptdfIn.reduction_bus_indices
       \/ t = b /\ f \in ptdfIn.reduction_bus_indices

\* the devices in the grid that were mirrored from device id to bus b
MirroredAt(id, b) ==
    {n \in DOMAIN ptdfGrid.devices :
        ptdfGrid.devices[n].src = id /\ ptdfGrid.devices[n].bus = b}

\* C13: for each injection device d at an external bus i and each boundary bus b with
\* attachment branch k, the device created at b has P' = PTDF[k, i] * P_d (and Q'
\* likewise for loads), and none is created when |PTDF[k, i]| is below the tolerance
C13_MirroredPower ==
    ptdfPc = "returned" =>
        \A i \in PtdfExternal : DeviceKindAt(i) \in {"generator", "load"} =>
            \A p \in DOMAIN ptdfLoc.b_buses :
                LET b == ptdfLoc.b_buses[p]
                    k == ptdfLoc.boundary_branches[p]
                    v == ptdfIn.PTDF[k][i]
                IN IsAttachment(k, b) =>
                    IF AboveTol(v)
                    THEN /\ Cardinality(MirroredAt(i, b)) = 1
                         /\ \A n \in MirroredAt(i, b) :
                               /\ ptdfGrid.devices[n].P = v * 3
                               /\ DeviceKindAt(i) = "load" => ptdfGrid.devices[n].Q = v * 2
                    ELSE MirroredAt(i, b) = {}

\* C14: after a reduction that does not exit early no external bus remains and no
\* injection device that was attached to an external bus remains; only mirrored
\* devices stand in for them
C14_ExternalDevicesGone ==
    ptdfPc = "returned" =>
        /\ ptdfGrid.buses \cap PtdfExternal = {}
        /\ \A n \in DOMAIN ptdfGrid.devices :
              ptdfGrid.devices[n].src = -1 => ptdfGrid.devices[n].id \notin PtdfExternal

\* the external buses themselves are always gone, and with them every device still
\* attached to one of them
ExternalBusesGone ==
    ptdfPc = "returned" =>
        /\ ptdfGrid.buses \cap PtdfExternal = {}
        /\ \A n \in DOMAIN ptdfGrid.devices : ptdfGrid.devices[n].bus \notin PtdfExternal

\* ptdf_reduction_with_islands does not move the original devices
C14_HoldsWithIslands ==
    ptdfIn.variant = "ptdf_reduction_with_islands" => C14_ExternalDevicesGone

(***************************************************************************)
(* compose_states                                                          *)
(***************************************************************************)
CHorizon == 3       \* horizon of a compose_states call
MaxDur == 3         \* sampled durations are drawn from 0..MaxDur
MaxFailures == 3    \* n_failures is followed up to this value

CTime == 0 .. (CHorizon - 1)

\* mttf and mttr are 0 (the component never fails / is repaired at once) or positive
CompInputs == [mttf : {0, 1}, mttr : {0, 1}, initially_working : BOOLEAN]

\* int(- mean * np.log(np.random.rand())): any duration, tagged with the mean the
\* call site passes
Durations == 0 .. MaxDur

\* active[a:b] = value, with b already clipped to the horizon
WriteSlice(active, a, b, value) ==
    [t \in CTime |-> IF a <= t /\ t < b THEN value ELSE active[t]]

\* the clipped end of a slice
ClipEnd(b) == IF b > CHorizon THEN CHorizon ELSE b

CompInit ==
    /\ compIn \in CompInputs
    /\ compPc = "enter"
    /\ compLoc = [a |-> 0, b |-> 0, n_failures |-> 0,
                  active |-> [t \in CTime |-> FALSE],
                  periods |-> <<>>]

\* the two early returns, the choice of factor_1 / factor_2 (never read) and a = b = 0
CompEnter ==
    /\ compPc = "enter"
    /\ IF compIn.mttf = 0 \/ compIn.mttr = 0
       THEN /\ compPc' = "returnedAlwaysOn"
            /\ compLoc' = [compLoc EXCEPT !.active = [t \in CTime |-> TRUE]]
       ELSE /\ compPc' = "failure"
            /\ UNCHANGED compLoc
    /\ UNCHANGED <<compIn, compOthers>>

\* simulate failure: the up period, drawn with mttf
CompFailure(duration) ==
    /\ compPc = "failure"
    /\ LET b == compLoc.a + duration
           period == [up |-> TRUE, mean |-> "mttf", start |-> compLoc.a, len |-> duration]
       IN IF b > CHorizon
          THEN /\ compLoc' = [compLoc EXCEPT
                                !.b = b,
                                !.active = WriteSlice(@, compLoc.a, CHorizon, TRUE),
                                !.periods = Append(@, period)]
               /\ compPc' = "returned"
          ELSE /\ compLoc' = [compLoc EXCEPT
                                !.b = b,
                                !.a = b,
                                !.active = WriteSlice(@, compLoc.a, b, TRUE),
                                !.periods = Append(@, period)]
               /\ compPc' = "recovery"
    /\ UNCHANGED <<compIn, compOthers>>

\* simulate recovery: the down period, drawn with mttr; then the test of the while loop
CompRecovery(duration) ==
    /\ compPc = "recovery"
    /\ compLoc.n_failures < MaxFailures
    /\ LET b == compLoc.a + duration
           period == [up |-> FALSE, mean |-> "mttr", start |-> compLoc.a, len |-> duration]
       IN /\ compLoc' = [compLoc EXCEPT
                            !.b = b,
                            !.a = IF b > CHorizon THEN @ ELSE b,
                            !.active = WriteSlice(@, compLoc.a, ClipEnd(b), FALSE),
                            !.n_failures = @ + 1,
                            !.periods = Append(@, period)]
          /\ compPc' = IF b >= CHorizon THEN "returned" ELSE "failure"
    /\ UNCHANGED <<compIn, compOthers>>

CompNext ==
    \/ CompEnter
    \/ \E duration \in Durations : CompFailure(duration)
    \/ \E duration \in Durations : CompRecovery(duration)

CompSpecInit == CompInit /\ ScanParked /\ ConParked /\ RelParked /\ WardParked /\ PtdfParked /\ FtbParked /\ EulerParked /\ BuildParked /\ StabParked /\ SelParked /\ HostParked /\ B2dParked

SpecCompose == CompSpecInit /\ [][CompNext]_vars

(***************************************************************************)
(* Properties of compose_states                                            *)
(***************************************************************************)
\* C15: the sampled sequence starts at t = 0 with a down period drawn with mean MTTR
\* when initially_working is False and with an up period drawn with mean MTTF when it is
\* True; thereafter up and down periods alternate
C15_InitialStateHonoured ==
    compPc = "returned" =>
        /\ compLoc.periods[1].up = compIn.initially_working
        /\ compLoc.periods[1].mean = (IF compIn.initially_working THEN "mttf" ELSE "mttr")
        /\ \A n \in DOMAIN compLoc.periods :
              n > 1 => compLoc.periods[n].up # compLoc.periods[n - 1].up

\* what compose_states does whatever initially_working is: it starts with an up period
\* drawn with mttf and alternates
ComposeStartsUp ==
    compPc = "returned" =>
        /\ compLoc.periods[1].up
        /\ compLoc.periods[1].mean = "mttf"
        /\ \A n \in DOMAIN compLoc.periods :
              /\ n > 1 => compLoc.periods[n].up # compLoc.periods[n - 1].up
              /\ \A t \in CTime :
                    (compLoc.periods[n].start <= t
                        /\ t < compLoc.periods[n].start + compLoc.periods[n].len)
                    => compLoc.active[t] = compLoc.periods[n].up

\* the number of maximal runs of inactive entries of a state vector
InactiveRuns(active) ==
    Cardinality({t \in CTime : ~active[t] /\ (t = 0 \/ active[t - 1])})

\* C28: the returned vector has exactly `horizon` entries and the returned failure count
\* is the number of maximal runs of inactive entries in it: a down period of zero
\* length, or one that would begin at or after the horizon, is not counted
C28_FailuresAreInactiveRuns ==
    compPc \in {"returned", "returnedAlwaysOn"} =>
        /\ DOMAIN compLoc.active = 0 .. (CHorizon - 1)
        /\ compLoc.n_failures = InactiveRuns(compLoc.active)

\* what is returned: a vector of `horizon` entries and the number of down periods that
\* were drawn, whatever their length and wherever they begin
FailuresAreDownPeriodsDrawn ==
    compPc \in {"returned", "returnedAlwaysOn"} =>
        /\ DOMAIN compLoc.active = 0 .. (CHorizon - 1)
        /\ compLoc.n_failures
             = Cardinality({n \in DOMAIN compLoc.periods : ~compLoc.periods[n].up})
        /\ compLoc.n_failures >= InactiveRuns(compLoc.active)

(***************************************************************************)
(* find_time_blocks                                                        *)
(***************************************************************************)
BHorizon == 3       \* horizon of a find_time_blocks call
NDev == 2           \* number of columns of all_actives

BTime == 0 .. (BHorizon - 1)
BDev == 0 .. (NDev - 1)

FtbInputs == [BTime -> [BDev -> BOOLEAN]]

\* all_actives[tidx, :].sum()
RowSum(all_actives, tidx) == Cardinality({k \in BDev : all_actives[tidx][k]})

\* the body of `for tidx in range(horizon)`
FtbIteration(loc, all_actives) ==
    IF RowSum(all_actives, loc.tidx) # NDev
    THEN [loc EXCEPT !.tidx = @ + 1, !.idx_list = Append(@, loc.tidx)]
    ELSE IF Len(loc.idx_list) > 0
         THEN [loc EXCEPT !.tidx = @ + 1,
                          !.blocks = Append(@, loc.idx_list),
                          !.idx_list = <<>>]
         ELSE [loc EXCEPT !.tidx = @ + 1]

FtbInit ==
    /\ ftbIn \in FtbInputs
    /\ ftbPc = "loop"
    /\ ftbLoc = [tidx |-> 0, blocks |-> <<>>, idx_list |-> <<>>]

\* one iteration of the loop over the time indices
FtbStep ==
    /\ ftbPc = "loop"
    /\ ftbLoc.tidx < BHorizon
    /\ ftbLoc' = FtbIteration(ftbLoc, ftbIn)
    /\ UNCHANGED <<ftbIn, ftbPc, ftbOthers>>

\* return blocks
FtbReturn ==
    /\ ftbPc = "loop"
    /\ ftbLoc.tidx = BHorizon
    /\ ftbPc' = "returned"
    /\ UNCHANGED <<ftbIn, ftbLoc, ftbOthers>>

FtbNext ==
    \/ FtbStep
    \/ FtbReturn

FtbSpecInit ==
    FtbInit /\ ScanParked /\ ConParked /\ RelParked /\ WardParked /\ PtdfParked /\ CompParked /\ EulerParked /\ BuildParked /\ StabParked /\ SelParked /\ HostParked /\ B2dParked

SpecBlocks == FtbSpecInit /\ [][FtbNext]_vars

(***************************************************************************)
(* Properties of find_time_blocks                                          *)
(***************************************************************************)
\* at least one component is inactive at time index t
SomeInactive(t) == \E k \in BDev : ~ftbIn[t][k]

\* the returned blocks that hold t
BlocksHolding(t) == {n \in DOMAIN ftbLoc.blocks : t \in Range(ftbLoc.blocks[n])}

\* block n is a run of consecutive indices that cannot be extended on either side
IsMaximalRun(n) ==
    LET blk == ftbLoc.blocks[n]
    IN /\ Len(blk) > 0
       /\ \A j \in 1 .. (Len(blk) - 1) : blk[j + 1] = blk[j] + 1
       /\ blk[1] = 0 \/ ~SomeInactive(blk[1] - 1)
       /\ blk[Len(blk)] = BHorizon - 1 \/ ~SomeInactive(blk[Len(blk)] + 1)

\* C16: find_time_blocks returns exactly the maximal contiguous runs of time indices
\* with an inactive component, a run that lasts until the final index included
C16_BlocksAreMaximalRuns ==
    ftbPc = "returned" =>
        /\ \A t \in BTime : SomeInactive(t) => Cardinality(BlocksHolding(t)) = 1
        /\ \A t \in BTime : ~SomeInactive(t) => BlocksHolding(t) = {}
        /\ \A n \in DOMAIN ftbLoc.blocks : IsMaximalRun(n)

\* t lies in the run of failures that lasts until the final index
InTrailingRun(t) == \A u \in BTime : u >= t => SomeInactive(u)

\* what does hold: the returned blocks are the maximal runs that end before the final
\* index; the run that reaches the final index is left in idx_list and not returned
BlocksExceptTrailingRun ==
    ftbPc = "returned" =>
        /\ \A t \in BTime :
              (SomeInactive(t) /\ ~InTrailingRun(t)) => Cardinality(BlocksHolding(t)) = 1
        /\ \A t \in BTime : InTrailingRun(t) => BlocksHolding(t) = {} /\ t \in Range(ftbLoc.idx_list)
        /\ \A t \in BTime : ~SomeInactive(t) => BlocksHolding(t) = {}
        /\ \A n \in DOMAIN ftbLoc.blocks : IsMaximalRun(n)

(***************************************************************************)
(* DiffBlockSolver.simulate / _simulate_implicit_euler                     *)
(*                                                                         *)
(* Times are whole ticks.  The solver holds one parameter whose equation   *)
(* is a function of time: its base value until the event, the event's      *)
(* new_value from t_event on.  Tolerances and residual norms are whole     *)
(* multiples of 1e-8.  An iterate is named by the step and the iteration   *)
(* that produced it.                                                       *)
(***************************************************************************)
ETEnd == 3          \* t_end ranges over 1..ETEnd, t0 is 0
MaxH == 2           \* the step h ranges over 1..MaxH
MaxIter == 2        \* newton_max_iter ranges over 0..MaxIter

BaseValue == 0      \* the parameter before any event
EValues == {1, 2}   \* new_value of the event

TolStep == 10             \* tol = 1e-7, set before the Newton loop of every step
TolDiscontinuity == 1     \* tol = 1e-8, set inside the loop under `if discontinuity`
MaxIterDiscontinuity == 500000  \* max_iter = 5e5, set under `if discontinuity`

\* newton_tol of the caller: 1e-8 (the default), 1e-7, 1e-6
NewtonTols == {1, 10, 100}
\* np.linalg.norm(rhs, np.inf) of an iteration: 0, 5e-8, 5e-7
Residuals == {0, 5, 50}

\* the event (t_event, param_uid, new_value) of the single parameter; an event after
\* ETEnd never takes place in the simulated window
EulerInputs ==
    [t0 : {0}, t_end : 1 .. ETEnd, h : 1 .. MaxH, params0 : {BaseValue, 2},
     method : {"implicit_euler"},
     newton_tol : NewtonTols, newton_max_iter : 0 .. MaxIter,
     event : [t_event : 0 .. (ETEnd + 1), new_value : EValues]]

\* self._params_fn(t): the compiled parameter equations at time t
ParamsFn(in, time) ==
    IF time >= in.event.t_event THEN in.event.new_value ELSE BaseValue

\* int(np.ceil((t_end - t0) / h))
Steps(in) == ((in.t_end - in.t0) + in.h - 1) \div in.h

\* np.linalg.norm(params_current - params_previous, np.inf) > 1e-10
NormAboveTol(a, b) == Abs(a - b) > 0

\* x_new of step step_idx after n_iter >= 1 Newton updates; before the first update
\* x_new is a copy of xn = y[step_idx]
Iterate(step_idx, n_iter) == [step |-> step_idx, n_iter |-> n_iter]

\* x0, the initial values, which come before every step
InitialValues == Iterate(-1, 0)

\* what _simulate_implicit_euler hands back: `return t, y, timings`
EulerResult(loc) == [t |-> loc.t, y |-> loc.y, timings |-> "timings"]

NoResult == [t |-> <<>>, y |-> <<>>, timings |-> "none"]

EulerInit ==
    /\ eulerIn \in EulerInputs
    /\ eulerPc = "simulate"
    /\ eulerLoc = [step_idx |-> 0, steps |-> 0, t |-> <<>>, y |-> <<>>,
                   params_current |-> 0, params_previous |-> 0,
                   discontinuity |-> FALSE, converged |-> FALSE,
                   x_new |-> InitialValues,
                   tol |-> 0, max_iter |-> 0, n_iter |-> 0, residual |-> 0,
                   rhs_params |-> <<>>, refactor |-> <<>>,
                   result |-> NoResult]

\* simulate dispatches on the method and passes newton_tol and newton_max_iter on as
\* tol and max_iter; events_list is not handed on.  Then the set-up of
\* _simulate_implicit_euler: steps, params_current = params0, t[0] = t0, y[0] = x0
EulerSimulate ==
    /\ eulerPc = "simulate"
    /\ eulerIn.method = "implicit_euler"
    /\ eulerLoc' = [eulerLoc EXCEPT
                      !.steps = Steps(eulerIn),
                      !.tol = eulerIn.newton_tol,
                      !.max_iter = eulerIn.newton_max_iter,
                      !.params_current = eulerIn.params0,
                      !.t = <<eulerIn.t0>>,
                      !.y = <<InitialValues>>]
    /\ eulerPc' = "for"
    /\ UNCHANGED <<eulerIn, eulerOthers>>

\* the head of one pass of `for step_idx in range(steps)`, up to the Newton loop:
\* params_previous, discontinuity, converged, n_iter, current_time = t[step_idx],
\* x_new = xn.copy(), params_current, tol
EulerStepHead ==
    /\ eulerPc = "for"
    /\ eulerLoc.step_idx < eulerLoc.steps
    /\ LET params_previous == eulerLoc.params_current
           discontinuity == NormAboveTol(eulerLoc.params_current, params_previous)
           current_time == eulerLoc.t[eulerLoc.step_idx + 1]
       IN eulerLoc' = [eulerLoc EXCEPT
                         !.params_previous = params_previous,
                         !.discontinuity = discontinuity,
                         !.converged = FALSE,
                         !.n_iter = 0,
                         !.x_new = eulerLoc.y[eulerLoc.step_idx + 1],
                         !.params_current = ParamsFn(eulerIn, current_time),
                         !.tol = TolStep]
    /\ eulerPc' = "newton"
    /\ UNCHANGED <<eulerIn, eulerOthers>>

\* the test of `while not converged and n_iter < max_iter`
NewtonGoesOn(loc) == ~loc.converged /\ loc.n_iter < loc.max_iter

\* one pass of the Newton loop: the tolerance and limit of a discontinuity,
\* rhs_implicit(xnew_lags, xn_lags, params_current, step_idx + 1, h), the residual and
\* the test of convergence; then break, or the linear solve, which raises when delta is
\* not finite, and x_new += delta, n_iter += 1
EulerNewtonIter(residual, finite) ==
    /\ eulerPc = "newton"
    /\ NewtonGoesOn(eulerLoc)
    /\ LET tol == IF eulerLoc.discontinuity THEN TolDiscontinuity ELSE eulerLoc.tol
           max_iter == IF eulerLoc.discontinuity THEN MaxIterDiscontinuity
                       ELSE eulerLoc.max_iter
           converged == residual < tol
           first == eulerLoc.n_iter = 0
       IN /\ eulerLoc' = [eulerLoc EXCEPT
                            !.tol = tol,
                            !.max_iter = max_iter,
                            !.residual = residual,
                            !.converged = converged,
                            !.n_iter = IF converged \/ ~finite THEN @ ELSE @ + 1,
                            !.x_new = IF converged \/ ~finite THEN @
                                      ELSE Iterate(eulerLoc.step_idx, eulerLoc.n_iter + 1),
                            !.rhs_params = IF first THEN Append(@, eulerLoc.params_current)
                                           ELSE @,
                            !.refactor = IF first THEN Append(@, eulerLoc.discontinuity)
                                         ELSE @]
          /\ eulerPc' = IF converged THEN "after"
                        ELSE IF ~finite THEN "raised" ELSE "newton"
    /\ UNCHANGED <<eulerIn, eulerOthers>>

\* the loop ends because n_iter has reached max_iter
EulerNewtonLimit ==
    /\ eulerPc = "newton"
    /\ ~NewtonGoesOn(eulerLoc)
    /\ eulerPc' = "after"
    /\ UNCHANGED <<eulerIn, eulerLoc, eulerOthers>>

\* if converged: y[step_idx + 1] = x_new, t[step_idx + 1] = t[step_idx] + h
EulerCommit ==
    /\ eulerPc = "after"
    /\ eulerLoc.converged
    /\ eulerLoc' = [eulerLoc EXCEPT
                      !.y = Append(@, eulerLoc.x_new),
                      !.t = Append(@, @[eulerLoc.step_idx + 1] + eulerIn.h),
                      !.step_idx = @ + 1]
    /\ eulerPc' = "for"
    /\ UNCHANGED <<eulerIn, eulerOthers>>

\* else: "Failed to converge", break; return t, y, timings
EulerBreak ==
    /\ eulerPc = "after"
    /\ ~eulerLoc.converged
    /\ eulerLoc' = [eulerLoc EXCEPT !.result = EulerResult(eulerLoc)]
    /\ eulerPc' = "returned"
    /\ UNCHANGED <<eulerIn, eulerOthers>>

\* the loop is exhausted: return t, y, timings
EulerReturn ==
    /\ eulerPc = "for"
    /\ eulerLoc.step_idx >= eulerLoc.steps
    /\ eulerLoc' = [eulerLoc EXCEPT !.result = EulerResult(eulerLoc)]
    /\ eulerPc' = "returned"
    /\ UNCHANGED <<eulerIn, eulerOthers>>

EulerNext ==
    \/ EulerSimulate
    \/ EulerStepHead
    \/ \E residual \in Residuals, finite \in BOOLEAN : EulerNewtonIter(residual, finite)
    \/ EulerNewtonLimit
    \/ EulerCommit
    \/ EulerBreak
    \/ EulerReturn

EulerSpecInit == EulerInit /\ ScanParked /\ ConParked /\ RelParked /\ WardParked /\ PtdfParked /\ CompParked /\ FtbParked /\ BuildParked /\ StabParked /\ SelParked /\ HostParked /\ B2dParked

SpecEuler == EulerSpecInit /\ [][EulerNext]_vars

(***************************************************************************)
(* Properties of the implicit-Euler loop                                   *)
(***************************************************************************)
\* rhs_params[n + 1] is the parameter vector of the Newton iterations that compute
\* y[n + 1]; the step runs from StepStart(n) = t[n] to StepEnd(n) = t[n] + h
NewtonRan(n) == n + 1 \in DOMAIN eulerLoc.rhs_params
StepStart(n) == eulerIn.t0 + n * eulerIn.h
StepEnd(n) == StepStart(n) + eulerIn.h
EventWithin(n) ==
    StepStart(n) < eulerIn.event.t_event /\ eulerIn.event.t_event <= StepEnd(n)

\* C20: an event with t[n] < t_event <= t[n+1] is already in effect in the parameter
\* vector used by the Newton iterations that compute y[n+1]: it is applied neither one
\* step late nor one step early
C20_EventInEffectAtItsStep ==
    \A n \in 0 .. (ETEnd - 1) :
        NewtonRan(n) =>
            /\ EventWithin(n) => eulerLoc.rhs_params[n + 1] = eulerIn.event.new_value
            /\ eulerIn.event.t_event > StepEnd(n) => eulerLoc.rhs_params[n + 1] = BaseValue

\* what the loop does: the Newton iterations that compute y[n+1] use the parameters of
\* the start of the step, t[n], so an event inside the step is first used for y[n+2]
ParamsOfStepStart ==
    \A n \in 0 .. (ETEnd - 1) :
        NewtonRan(n) =>
            /\ eulerLoc.rhs_params[n + 1] = ParamsFn(eulerIn, StepStart(n))
            /\ EventWithin(n) => eulerLoc.rhs_params[n + 1] = BaseValue
            /\ (EventWithin(n) /\ NewtonRan(n + 1))
                  => eulerLoc.rhs_params[n + 2] = eulerIn.event.new_value

\* the recorded times are t0 + n h, and params0 and the discontinuity flag play no part:
\* params_previous is a copy of params_current when the two are compared
TimesAndDiscontinuity ==
    /\ \A k \in DOMAIN eulerLoc.t : eulerLoc.t[k] = StepStart(k - 1)
    /\ \A k \in DOMAIN eulerLoc.refactor : ~eulerLoc.refactor[k]

\* C21: whenever the parameter vector used at a step differs from the one used at the
\* previous step, the discontinuity flag of that step is true before its Newton loop runs
C21_DiscontinuityDetected ==
    \A k \in DOMAIN eulerLoc.rhs_params :
        (k > 1 /\ eulerLoc.rhs_params[k] # eulerLoc.rhs_params[k - 1])
            => eulerLoc.refactor[k]

\* a pass of the Newton loop, and the loop ending without convergence
NewtonPass == eulerPc = "newton" /\ NewtonGoesOn(eulerLoc)
NewtonGivesUp == eulerPc = "newton" /\ eulerPc' = "after" /\ ~eulerLoc'.converged

\* C22: the Newton loop of every step stops exactly when the residual infinity-norm is
\* below the caller's newton_tol or when newton_max_iter iterations have been done: the
\* tolerance and the limit in use are the ones passed to simulate()
C22_NewtonUsesCallerTolerance ==
    [][/\ NewtonPass =>
            /\ eulerLoc'.converged <=> (eulerLoc'.residual < eulerIn.newton_tol)
            /\ eulerLoc'.tol = eulerIn.newton_tol
            /\ eulerLoc'.max_iter = eulerIn.newton_max_iter
       /\ NewtonGivesUp => eulerLoc.n_iter = eulerIn.newton_max_iter]_vars

\* what the loop does: the limit is the caller's, the tolerance is the 1e-7 set before
\* the loop of every step, whatever newton_tol is
NewtonUsesStepTolerance ==
    [][/\ NewtonPass =>
            /\ eulerLoc'.converged <=> (eulerLoc'.residual < TolStep)
            /\ eulerLoc'.tol = TolStep
            /\ eulerLoc'.max_iter = eulerIn.newton_max_iter
       /\ NewtonGivesUp => eulerLoc.n_iter = eulerIn.newton_max_iter]_vars

\* the simulation has returned after a Newton loop that did not converge
ReturnedUnconverged == eulerPc = "returned" /\ ~eulerLoc.converged

\* C23: when the Newton loop reaches its limit without converging the simulation returns
\* normally, the result reports converged = false and contains the last iterate, and no
\* row of the returned time and state arrays is left unwritten
C23_NonConvergenceReported ==
    ReturnedUnconverged =>
        /\ "converged" \in DOMAIN eulerLoc.result
        /\ eulerLoc.result.converged = FALSE
        /\ eulerLoc.x_new \in Range(eulerLoc.result.y)
        /\ Len(eulerLoc.result.t) = eulerLoc.steps + 1
        /\ Len(eulerLoc.result.y) = eulerLoc.steps + 1

\* what is returned then: t, y and the timings, without a flag; the rows up to the failed
\* step are written, the rows of the failed step and after it are not, and an iterate
\* that the failed step updated is in no row
NonConvergenceTruncates ==
    ReturnedUnconverged =>
        /\ DOMAIN eulerLoc.result = {"t", "y", "timings"}
        /\ Len(eulerLoc.result.t) = eulerLoc.step_idx + 1
        /\ Len(eulerLoc.result.y) = eulerLoc.step_idx + 1
        /\ eulerLoc.step_idx < eulerLoc.steps
        /\ eulerLoc.n_iter > 0 => eulerLoc.x_new \notin Range(eulerLoc.result.y)

(***************************************************************************)
(* DiffBlockSolver.__init__ / _get_jacobian                                *)
(*                                                                         *)
(* A block tree is a root block with one child.  A variable is its UID, an *)
(* equation list is its length.                                            *)
(***************************************************************************)
NUid == 2           \* variable UIDs are 1..NUid
MaxVars == 2        \* the root block's lists hold up to MaxVars entries

Uids == 1 .. NUid

SeqsUpTo(S, n) == UNION {[1 .. k -> S] : k \in 0 .. n}

\* the root block: any lists; the child block: at most one state and one algebraic
\* variable with one equation each
BuildInputs ==
    [root : [state_vars : SeqsUpTo(Uids, MaxVars), algebraic_vars : SeqsUpTo(Uids, MaxVars),
             state_eqs : 0 .. MaxVars, algebraic_eqs : 0 .. MaxVars],
     child : {[state_vars |-> s, algebraic_vars |-> a,
               state_eqs |-> Len(s), algebraic_eqs |-> Len(a)] :
                 s \in SeqsUpTo(Uids, 1), a \in SeqsUpTo(Uids, 1)}]

\* Block.get_all_blocks: the blocks of the tree, the root first
GetAllBlocks(in) == <<in.root, in.child>>

\* `v in check_set` of the loop over `variables`: some entry repeats an earlier one
HasRepeatedVar(variables) ==
    \E i, j \in DOMAIN variables : i < j /\ variables[i] = variables[j]

\* the calls of _get_jacobian made by the constructor, by their `variables` argument
JacobianCalls(loc) ==
    IF loc.state_eqs # 0
    THEN <<"state_vars", "algebraic_vars", "state_vars", "algebraic_vars">>
    ELSE <<"algebraic_vars">>

\* uid2idx_vars after the two numbering loops: a later entry of a UID replaces the
\* earlier one
Uid2Idx(state_vars, algebraic_vars) ==
    LET all == state_vars \o algebraic_vars
    IN [u \in Range(all) |->
          (CHOOSE i \in DOMAIN all :
              all[i] = u /\ \A j \in DOMAIN all : all[j] = u => j <= i) - 1]

BuildInit ==
    /\ buildIn \in BuildInputs
    /\ buildPc = "flatten"
    /\ buildLoc = [state_vars |-> <<>>, algebraic_vars |-> <<>>,
                   state_eqs |-> 0, algebraic_eqs |-> 0,
                   n_vars |-> 0, uid2idx_vars |-> <<>>, calls |-> <<>>]

\* for b in self.block_system.get_all_blocks(): extend the flat lists; then the counts
BuildFlatten ==
    /\ buildPc = "flatten"
    /\ LET bs == GetAllBlocks(buildIn)
           sv == bs[1].state_vars \o bs[2].state_vars
           av == bs[1].algebraic_vars \o bs[2].algebraic_vars
       IN buildLoc' = [buildLoc EXCEPT
                         !.state_vars = sv,
                         !.algebraic_vars = av,
                         !.state_eqs = bs[1].state_eqs + bs[2].state_eqs,
                         !.algebraic_eqs = bs[1].algebraic_eqs + bs[2].algebraic_eqs,
                         !.n_vars = Len(sv) + Len(av)]
    /\ buildPc' = "index"
    /\ UNCHANGED <<buildIn, buildOthers>>

\* the numbering of the variables and the choice of the Jacobians to compile
BuildIndex ==
    /\ buildPc = "index"
    /\ buildLoc' = [buildLoc EXCEPT
                      !.uid2idx_vars = Uid2Idx(buildLoc.state_vars, buildLoc.algebraic_vars),
                      !.calls = JacobianCalls(buildLoc)]
    /\ buildPc' = "jacobians"
    /\ UNCHANGED <<buildIn, buildOthers>>

\* one call of _get_jacobian: ValueError on a repeated entry of `variables`
BuildGetJacobian ==
    /\ buildPc = "jacobians"
    /\ buildLoc.calls # <<>>
    /\ LET variables == IF Head(buildLoc.calls) = "state_vars" THEN buildLoc.state_vars
                        ELSE buildLoc.algebraic_vars
       IN IF HasRepeatedVar(variables)
          THEN /\ buildPc' = "raised"
               /\ UNCHANGED buildLoc
          ELSE /\ buildPc' = "jacobians"
               /\ buildLoc' = [buildLoc EXCEPT !.calls = Tail(@)]
    /\ UNCHANGED <<buildIn, buildOthers>>

\* "Model compiled with ...": the solver is built and simulate can be called
BuildDone ==
    /\ buildPc = "jacobians"
    /\ buildLoc.calls = <<>>
    /\ buildPc' = "built"
    /\ UNCHANGED <<buildIn, buildLoc, buildOthers>>

BuildNext ==
    \/ BuildFlatten
    \/ BuildIndex
    \/ BuildGetJacobian
    \/ BuildDone

BuildSpecInit == BuildInit /\ ScanParked /\ ConParked /\ RelParked /\ WardParked /\ PtdfParked /\ CompParked /\ FtbParked /\ EulerParked /\ StabParked /\ SelParked /\ HostParked /\ B2dParked

SpecBuild == BuildSpecInit /\ [][BuildNext]_vars

(***************************************************************************)
(* Properties of the construction of a DiffBlockSolver                     *)
(***************************************************************************)
\* C24: a solver is only built from a block tree that keeps the Block invariants: no
\* variable UID occurs twice in the flattened state and algebraic lists together, and
\* each list of equations is as long as its list of variables
C24_MalformedBlockRejected ==
    buildPc = "built" =>
        /\ ~HasRepeatedVar(buildLoc.state_vars \o buildLoc.algebraic_vars)
        /\ buildLoc.state_eqs = Len(buildLoc.state_vars)
        /\ buildLoc.algebraic_eqs = Len(buildLoc.algebraic_vars)

\* what the constructor rejects: a UID repeated within the algebraic list, or within the
\* state list when there is a state equation; and it rejects nothing else
BuiltWithoutRepeatsPerList ==
    /\ buildPc = "built" =>
          /\ ~HasRepeatedVar(buildLoc.algebraic_vars)
          /\ buildLoc.state_eqs # 0 => ~HasRepeatedVar(buildLoc.state_vars)
    /\ buildPc = "raised" =>
          \/ HasRepeatedVar(buildLoc.algebraic_vars)
          \/ buildLoc.state_eqs # 0 /\ HasRepeatedVar(buildLoc.state_vars)

(***************************************************************************)
(* run_small_signal_stability: the stability assessment                    *)
(*                                                                         *)
(* An eigenvalue is its real part, a whole multiple of the tolerance 1e-6. *)
(***************************************************************************)
MaxEig == 3         \* up to MaxEig eigenvalues
MaxRe == 2          \* real parts range over -MaxRe..MaxRe

SsTol == 1          \* tol = 1e-6, the numerical tolerance for eigenvalues = 0

\* the eigenvalues scipy.linalg.eig returns for the state matrix
StabInputs == UNION {[1 .. k -> (-MaxRe) .. MaxRe] : k \in 0 .. MaxEig}

\* np.real(eigenvalues) > tol
IsUnstableEig(re) == re > SsTol

IsZeroEigStrict(re) == Abs(re) < SsTol

\* abs(np.real(eigenvalues)) <= tol
IsZeroEig(re) == Abs(re) <= SsTol

\* the report chosen from the sizes of the two selections
StabilityReport(unstable_eigs, zero_eigs) ==
    IF Len(unstable_eigs) = 0
    THEN IF Len(zero_eigs) = 0 THEN "Asymptotically stable" ELSE "Marginally stable"
    ELSE "Unstable"

StabInit ==
    /\ stabIn \in StabInputs
    /\ stabPc = "select"
    /\ stabLoc = [unstable_eigs |-> <<>>, zero_eigs |-> <<>>, stability_report |-> "none"]

\* unstable_eigs and zero_eigs
StabSelect ==
    /\ stabPc = "select"
    /\ stabLoc' = [stabLoc EXCEPT
                     !.unstable_eigs = SelectSeq(stabIn, IsUnstableEig),
                     !.zero_eigs = SelectSeq(stabIn, IsZeroEig)]
    /\ stabPc' = "report"
    /\ UNCHANGED <<stabIn, stabOthers>>

\* the if / else that sets stability_report, and the return
StabReport ==
    /\ stabPc = "report"
    /\ stabLoc' = [stabLoc EXCEPT
                     !.stability_report = StabilityReport(stabLoc.unstable_eigs,
                                                          stabLoc.zero_eigs)]
    /\ stabPc' = "returned"
    /\ UNCHANGED <<stabIn, stabOthers>>

StabNext ==
    \/ StabSelect
    \/ StabReport

StabSpecInit == StabInit /\ ScanParked /\ ConParked /\ RelParked /\ WardParked /\ PtdfParked /\ CompParked /\ FtbParked /\ EulerParked /\ BuildParked /\ SelParked /\ HostParked /\ B2dParked

SpecStab == StabSpecInit /\ [][StabNext]_vars

(***************************************************************************)
(* Properties of the stability assessment                                  *)
(***************************************************************************)
\* C25: the classification is total and exclusive with tolerance eps: asymptotically
\* stable exactly when every eigenvalue has real part < -eps, unstable exactly when some
\* eigenvalue has real part > eps, marginally stable in every other case
C25_ClassificationTotalExclusive ==
    stabPc = "returned" =>
        LET allBelow == \A k \in DOMAIN stabIn : stabIn[k] < -SsTol
            someAbove == \E k \in DOMAIN stabIn : stabIn[k] > SsTol
            report == stabLoc.stability_report
        IN /\ report \in {"Asymptotically stable", "Unstable", "Marginally stable"}
           /\ (report = "Asymptotically stable") <=> allBelow
           /\ (report = "Unstable") <=> someAbove
           /\ (report = "Marginally stable") <=> (~allBelow /\ ~someAbove)

\* a returned report for eigenvalues none of which is above eps and one of which has its
\* real part exactly at -eps: marginally stable
C25_Witness ==
    /\ stabPc = "returned"
    /\ stabLoc.stability_report = "Marginally stable"
    /\ Len(stabIn) > 1
    /\ \E k \in DOMAIN stabIn : stabIn[k] = -SsTol
    /\ \A k \in DOMAIN stabIn : stabIn[k] < 0

(***************************************************************************)
(* ContingencyAnalysisTimeSeriesDriver: the contingency groups of a run    *)
(*                                                                         *)
(* A contingency group is its index in the grid, which also stands for its *)
(* name.  A row of a per-time result is the group it was computed for.     *)
(***************************************************************************)
NGrp == 3           \* contingency groups of the grid
NSelT == 2          \* time indices of the run

Grp == 0 .. (NGrp - 1)

\* self.grid.get_contingency_groups(), in the order of the grid
GridGroups == [k \in 1 .. NGrp |-> k - 1]

\* a list of distinct groups of the grid, in any order
GroupLists ==
    {s \in UNION {[1 .. k -> Grp] : k \in 0 .. NGrp} :
        \A i, j \in DOMAIN s : i # j => s[i] # s[j]}

TsMethods == {"run_nonlinear_contingency_analysis", "run_linear_contingency_analysis",
              "run_contingency_scan"}

\* options.contingency_groups is None or a list of groups
SelInputs ==
    [method : TsMethods,
     contingency_groups : [none : {TRUE}, list : {<<>>}]
                            \cup [none : {FALSE}, list : GroupLists]]

\* con_names of the results object
ConNames(in) ==
    IF in.contingency_groups.none THEN GridGroups ELSE in.contingency_groups.list

\* contingency_groups_used of the LinearMultiContingencies object of the method
ContingencyGroupsUsed(in) ==
    IF in.method = "run_contingency_scan"
    THEN GridGroups
    ELSE IF in.contingency_groups.none THEN GridGroups ELSE in.contingency_groups.list

\* the rows overloading[k, :] for k in range(results.ncon): the first ncon rows of the
\* per-time result (a list of distinct groups of the grid is never longer than the grid's)
RowsAggregated(rows, ncon) == [k \in 1 .. ncon |-> rows[k]]

SelInit ==
    /\ selIn \in SelInputs
    /\ selPc = "setup"
    /\ selLoc = [con_names |-> <<>>, ncon |-> 0, contingency_groups_used |-> <<>>,
                 it |-> 0, evaluated |-> <<>>, aggregated |-> <<>>]

\* con_names, the results object and the groups handed to LinearMultiContingencies
SelSetup ==
    /\ selPc = "setup"
    /\ selLoc' = [selLoc EXCEPT
                    !.con_names = ConNames(selIn),
                    !.ncon = Len(ConNames(selIn)),
                    !.contingency_groups_used = ContingencyGroupsUsed(selIn)]
    /\ selPc' = "for"
    /\ UNCHANGED <<selIn, selOthers>>

\* one time index: the per-time analysis gives one row per group used; the maxima are
\* taken over all its rows, the running deviation over the rows 0 .. ncon - 1
SelTimeIndex ==
    /\ selPc = "for"
    /\ selLoc.it < NSelT
    /\ LET rows == selLoc.contingency_groups_used
       IN selLoc' = [selLoc EXCEPT
                       !.evaluated = Append(@, rows),
                       !.aggregated = Append(@, RowsAggregated(rows, selLoc.ncon)),
                       !.it = @ + 1]
    /\ UNCHANGED selPc
    /\ UNCHANGED <<selIn, selOthers>>

\* the loop over the time indices is done: return results
SelReturn ==
    /\ selPc = "for"
    /\ selLoc.it >= NSelT
    /\ selPc' = "returned"
    /\ UNCHANGED <<selIn, selLoc, selOthers>>

SelNext ==
    \/ SelSetup
    \/ SelTimeIndex
    \/ SelReturn

SelSpecInit == SelInit /\ ScanParked /\ ConParked /\ RelParked /\ WardParked /\ PtdfParked /\ CompParked /\ FtbParked /\ EulerParked /\ BuildParked /\ StabParked /\ HostParked /\ B2dParked

SpecSel == SelSpecInit /\ [][SelNext]_vars

(***************************************************************************)
(* Properties of the choice of contingency groups                          *)
(***************************************************************************)
\* the groups the options select
Selected == IF selIn.contingency_groups.none THEN GridGroups ELSE selIn.contingency_groups.list

\* C26: every method evaluates only the selected groups, and the number and order of the
\* contingency rows it aggregates match con_names; with the option None all groups are
\* used
C26_OnlySelectedGroups ==
    \A n \in DOMAIN selLoc.evaluated :
        /\ selLoc.evaluated[n] = Selected
        /\ selLoc.aggregated[n] = selLoc.con_names
        /\ selLoc.con_names = Selected

\* what holds: con_names are the selected groups in every method; the linear and the
\* nonlinear method evaluate and aggregate them; run_contingency_scan evaluates every
\* group of the grid and aggregates the first len(con_names) of them
ScanEvaluatesAllGroups ==
    \A n \in DOMAIN selLoc.evaluated :
        /\ selLoc.con_names = Selected
        /\ selIn.method # "run_contingency_scan" =>
              /\ selLoc.evaluated[n] = Selected
              /\ selLoc.aggregated[n] = Selected
        /\ selIn.method = "run_contingency_scan" =>
              /\ selLoc.evaluated[n] = GridGroups
              /\ selLoc.aggregated[n] = [k \in 1 .. Len(Selected) |-> k - 1]

(***************************************************************************)
(* DynamicModelHost: template, custom model and the `model` property       *)
(***************************************************************************)
NBlocks == 3        \* the blocks a caller assigns are numbered 1..NBlocks
MaxCalls == 3       \* assignments made to one host

\* a Block; EmptyBlock is the Block() the constructor stores as custom model
BlockObj(k) == [kind |-> "Block", id |-> k]
EmptyBlock == [kind |-> "Block", id |-> 0]
CallerBlocks == {BlockObj(k) : k \in 1 .. NBlocks}

\* a RmsModelTemplate with its block, and a value of any other type
TemplateObj(b) == [kind |-> "RmsModelTemplate", block |-> b]
OtherObj == [kind |-> "other"]
NoneObj == [kind |-> "None"]

\* the values a caller may assign
HostValues == CallerBlocks \cup {TemplateObj(b) : b \in CallerBlocks} \cup {OtherObj}

\* the getter of `model`
ModelGetter(template, custom_model) ==
    IF template = NoneObj THEN custom_model ELSE template

\* the setter of `template`: the new _template, or "raise" for a ValueError
TemplateSetter(template, val) ==
    IF val.kind = "RmsModelTemplate" THEN [raised |-> FALSE, template |-> val.block]
    ELSE IF val.kind = "Block" THEN [raised |-> FALSE, template |-> val]
    ELSE [raised |-> TRUE, template |-> template]

HostInit ==
    /\ hostTemplate = NoneObj
    /\ hostCustom = EmptyBlock
    /\ hostCalls = 0
    /\ hostLast = [attr |-> "__init__", val |-> NoneObj, raised |-> FALSE]

\* host.template = val
HostSetTemplate(val) ==
    /\ hostCalls < MaxCalls
    /\ LET r == TemplateSetter(hostTemplate, val)
       IN /\ hostTemplate' = r.template
          /\ hostLast' = [attr |-> "template", val |-> val, raised |-> r.raised]
    /\ hostCalls' = hostCalls + 1
    /\ UNCHANGED <<hostCustom, hostOthers>>

\* host.model = val
HostSetModel(val) ==
    /\ hostCalls < MaxCalls
    /\ IF val.kind = "RmsModelTemplate"
       THEN LET r == TemplateSetter(hostTemplate, val.block)
            IN /\ hostTemplate' = r.template
               /\ hostLast' = [attr |-> "model", val |-> val, raised |-> r.raised]
               /\ UNCHANGED hostCustom
       ELSE IF val.kind = "Block"
       THEN /\ hostCustom' = val
            /\ hostLast' = [attr |-> "model", val |-> val, raised |-> FALSE]
            /\ UNCHANGED hostTemplate
       ELSE /\ hostLast' = [attr |-> "model", val |-> val, raised |-> TRUE]
            /\ UNCHANGED <<hostTemplate, hostCustom>>
    /\ hostCalls' = hostCalls + 1
    /\ UNCHANGED hostOthers

HostNext ==
    \/ \E val \in HostValues : HostSetTemplate(val)
    \/ \E val \in HostValues : HostSetModel(val)

HostSpecInit == HostInit /\ ScanParked /\ ConParked /\ RelParked /\ WardParked /\ PtdfParked /\ CompParked /\ FtbParked /\ EulerParked /\ BuildParked /\ StabParked /\ SelParked /\ B2dParked

SpecHost == HostSpecInit /\ [][HostNext]_vars

(***************************************************************************)
(* Properties of DynamicModelHost                                          *)
(***************************************************************************)
\* host.model = b with b a Block has just been executed
ModelAssigned ==
    /\ hostCalls' = hostCalls + 1
    /\ hostLast'.attr = "model"
    /\ hostLast'.val.kind = "Block"

\* C30: the `model` getter gives preference to the custom model: after host.model = b
\* with b a Block, host.model returns b whether or not a template is set, and the
\* template is returned only when no custom model has been assigned
C30_ModelPrefersCustom ==
    [][/\ ModelAssigned => ModelGetter(hostTemplate', hostCustom') = hostLast'.val
       /\ (hostTemplate' # NoneObj /\ ModelGetter(hostTemplate', hostCustom') = hostTemplate')
             => hostCustom' = EmptyBlock]_vars

\* what the property does: host.model = b stores b as custom model and leaves the
\* template alone, and the getter returns the template whenever one is set
ModelPrefersTemplate ==
    [][/\ ModelAssigned => (hostCustom' = hostLast'.val /\ hostTemplate' = hostTemplate)
       /\ hostTemplate' # NoneObj => ModelGetter(hostTemplate', hostCustom') = hostTemplate'
       /\ hostTemplate' = NoneObj => ModelGetter(hostTemplate', hostCustom') = hostCustom']_vars

(***************************************************************************)
(* block2diffblock / DiffBlock.from_block                                  *)
(*                                                                         *)
(* Python objects are kept in two heaps: b2dLists holds the list objects,  *)
(* b2dBlocks the blocks, whose attributes are references into b2dLists.    *)
(* Two attributes that hold the same reference are the same list.  The     *)
(* block tree is a root with at most one child; the root is converted      *)
(* twice.                                                                  *)
(***************************************************************************)
MaxEqs == 2         \* a block has up to MaxEqs state and MaxEqs algebraic equations
NConversions == 2   \* block2diffblock is called this many times on the root

\* a block of the input: its numbers of state and of algebraic equations
BlockShapes == [n_state : 0 .. MaxEqs, n_alg : 0 .. MaxEqs]

B2dInputs == [root : BlockShapes, has_child : BOOLEAN, child : [n_state : 0 .. 1, n_alg : 0 .. 1]]

\* an equation or a variable of block blk, and a reference to a block
Item(kind, blk, k) == <<kind, blk, k>>
BlockRef(blk) == <<"block", blk, 0>>

\* the five list objects of a Block as its constructor stores them
BlockLists(blk, shape, children) ==
    << [k \in 1 .. shape.n_state |-> Item("state_eq", blk, k)],
       [k \in 1 .. shape.n_state |-> Item("state_var", blk, k)],
       [k \in 1 .. shape.n_alg |-> Item("algebraic_eq", blk, k)],
       [k \in 1 .. shape.n_alg |-> Item("algebraic_var", blk, k)],
       children >>

\* the attributes of a Block whose lists are at base + 1 .. base + 5
BlockAttrs(base) ==
    [state_eqs |-> base + 1, state_vars |-> base + 2, algebraic_eqs |-> base + 3,
     algebraic_vars |-> base + 4, children |-> base + 5, diff_vars |-> 0]

\* the heaps that hold the input tree: block 1 is the root, block 2 its child
InputLists(in) ==
    BlockLists(1, in.root, IF in.has_child THEN <<BlockRef(2)>> ELSE <<>>)
        \o (IF in.has_child THEN BlockLists(2, in.child, <<>>) ELSE <<>>)

InputBlocks(in) ==
    <<BlockAttrs(0)>> \o (IF in.has_child THEN <<BlockAttrs(5)>> ELSE <<>>)

\* DiffBlock.from_block followed by the two assignments of block2diffblock:
\* obj.__dict__ = block.__dict__.copy() copies the references, then diff_vars (and the
\* other DiffBlock fields) and state_eqs, state_vars are bound to new empty lists
FromBlock(blocks, lists, block) ==
    [blocks |-> Append(blocks, [blocks[block] EXCEPT
                                  !.diff_vars = Len(lists) + 1,
                                  !.state_eqs = Len(lists) + 2,
                                  !.state_vars = Len(lists) + 3]),
     lists |-> lists \o << <<>>, <<>>, <<>> >>]

\* eq = eq - dt_var, and dt_var, for the state equation and variable at position i
DiffEq(eq) == Item("eq_minus_dt", eq[2], eq[3])
DtVar(var) == Item("dt", var[2], var[3])

B2dInit ==
    /\ b2dIn \in B2dInputs
    /\ b2dBlocks = InputBlocks(b2dIn)
    /\ b2dLists = InputLists(b2dIn)
    /\ b2dStack = <<>>
    /\ b2dRes = <<>>

\* a frame of block2diffblock: its argument, its diff_block, and the positions of its
\* two loops
Frame(block, diff_block) == [block |-> block, diff_block |-> diff_block, i |-> 0, j |-> 0]

Top == b2dStack[Len(b2dStack)]

\* block2diffblock(root) is called; the frame starts with from_block and the two
\* assignments
B2dCallRoot ==
    /\ b2dStack = <<>>
    /\ Len(b2dRes) < NConversions
    /\ LET made == FromBlock(b2dBlocks, b2dLists, 1)
       IN /\ b2dBlocks' = made.blocks
          /\ b2dLists' = made.lists
          /\ b2dStack' = <<Frame(1, Len(made.blocks))>>
    /\ UNCHANGED <<b2dIn, b2dRes, b2dOthers>>

\* one pass of `for i, eq in enumerate(block.state_eqs)`: three appends
B2dStateEq ==
    /\ b2dStack # <<>>
    /\ Top.i < Len(b2dLists[b2dBlocks[Top.block].state_eqs])
    /\ LET block == b2dBlocks[Top.block]
           diff_block == b2dBlocks[Top.diff_block]
           eq == b2dLists[block.state_eqs][Top.i + 1]
           state_var == b2dLists[block.state_vars][Top.i + 1]
           l1 == [b2dLists EXCEPT ![diff_block.algebraic_eqs] = Append(@, DiffEq(eq))]
           l2 == [l1 EXCEPT ![diff_block.algebraic_vars] = Append(@, state_var)]
           l3 == [l2 EXCEPT ![diff_block.diff_vars] = Append(@, DtVar(state_var))]
       IN b2dLists' = l3
    /\ b2dStack' = [b2dStack EXCEPT ![Len(b2dStack)].i = @ + 1]
    /\ UNCHANGED <<b2dIn, b2dBlocks, b2dRes, b2dOthers>>

\* one pass of `for i, child_block in enumerate(diff_block.children)`: the recursive call
B2dCallChild ==
    /\ b2dStack # <<>>
    /\ Top.i >= Len(b2dLists[b2dBlocks[Top.block].state_eqs])
    /\ Top.j < Len(b2dLists[b2dBlocks[Top.diff_block].children])
    /\ LET child_block == b2dLists[b2dBlocks[Top.diff_block].children][Top.j + 1][2]
           made == FromBlock(b2dBlocks, b2dLists, child_block)
       IN /\ b2dBlocks' = made.blocks
          /\ b2dLists' = made.lists
          /\ b2dStack' = Append(b2dStack, Frame(child_block, Len(made.blocks)))
    /\ UNCHANGED <<b2dIn, b2dRes, b2dOthers>>

\* return diff_block: to the caller's `diff_block.children[i] = ...`, or to the program
B2dReturn ==
    /\ b2dStack # <<>>
    /\ Top.i >= Len(b2dLists[b2dBlocks[Top.block].state_eqs])
    /\ Top.j >= Len(b2dLists[b2dBlocks[Top.diff_block].children])
    /\ IF Len(b2dStack) = 1
       THEN /\ b2dRes' = Append(b2dRes, Top.diff_block)
            /\ b2dStack' = <<>>
            /\ UNCHANGED b2dLists
       ELSE LET caller == b2dStack[Len(b2dStack) - 1]
                children == b2dBlocks[caller.diff_block].children
            IN /\ b2dLists' = [b2dLists EXCEPT
                                 ![children][caller.j + 1] = BlockRef(Top.diff_block)]
               /\ b2dStack' = [k \in 1 .. (Len(b2dStack) - 1) |->
                                 IF k = Len(b2dStack) - 1
                                 THEN [caller EXCEPT !.j = @ + 1] ELSE b2dStack[k]]
               /\ UNCHANGED b2dRes
    /\ UNCHANGED <<b2dIn, b2dBlocks, b2dOthers>>

B2dNext ==
    \/ B2dCallRoot
    \/ B2dStateEq
    \/ B2dCallChild
    \/ B2dReturn

B2dSpecInit == B2dInit /\ ScanParked /\ ConParked /\ RelParked /\ WardParked /\ PtdfParked /\ CompParked /\ FtbParked /\ EulerParked /\ BuildParked /\ StabParked /\ SelParked /\ HostParked

SpecDiffBlock == B2dSpecInit /\ [][B2dNext]_vars

(***************************************************************************)
(* Properties of block2diffblock                                           *)
(***************************************************************************)
\* the lists of a block as values, its children one level down included
ListsOf(blocks, lists, blk) ==
    [state_eqs |-> lists[blocks[blk].state_eqs],
     state_vars |-> lists[blocks[blk].state_vars],
     algebraic_eqs |-> lists[blocks[blk].algebraic_eqs],
     algebraic_vars |-> lists[blocks[blk].algebraic_vars]]

ValueOf(blocks, lists, blk) ==
    [own |-> ListsOf(blocks, lists, blk),
     children |-> [k \in DOMAIN lists[blocks[blk].children] |->
                      ListsOf(blocks, lists, lists[blocks[blk].children][k][2])],
     child_ids |-> lists[blocks[blk].children]]

\* a conversion of the root has returned
Converted == b2dStack = <<>> /\ b2dRes # <<>>

\* C29: block2diffblock has no effect on its argument: after the call the input block's
\* equation, variable and children lists are unchanged, so two conversions of the same
\* block give equal results, each with as many algebraic equations as algebraic
\* variables and no state variables
C29_ArgumentUnchanged ==
    Converted =>
        /\ ValueOf(b2dBlocks, b2dLists, 1)
             = ValueOf(InputBlocks(b2dIn), InputLists(b2dIn), 1)
        /\ \A m, n \in DOMAIN b2dRes :
              ValueOf(b2dBlocks, b2dLists, b2dRes[m]).own
                 = ValueOf(b2dBlocks, b2dLists, b2dRes[n]).own
        /\ \A n \in DOMAIN b2dRes :
              LET r == ListsOf(b2dBlocks, b2dLists, b2dRes[n])
              IN Len(r.algebraic_eqs) = Len(r.algebraic_vars) /\ r.state_vars = <<>>

\* what the conversion does: the result shares its algebraic and children lists with the
\* argument, so every conversion appends the state equations of the argument to the
\* argument's own algebraic lists and replaces its children; only the state lists of
\* the argument stay as they were
ResultSharesListsWithArgument ==
    Converted =>
        LET before == ListsOf(InputBlocks(b2dIn), InputLists(b2dIn), 1)
            now == ListsOf(b2dBlocks, b2dLists, 1)
        IN /\ now.state_eqs = before.state_eqs
           /\ now.state_vars = before.state_vars
           /\ Len(now.algebraic_eqs)
                = Len(before.algebraic_eqs) + Len(b2dRes) * Len(before.state_eqs)
           /\ Len(now.algebraic_vars) = Len(now.algebraic_eqs)
           /\ \A n \in DOMAIN b2dRes :
                 /\ b2dBlocks[b2dRes[n]].algebraic_eqs = b2dBlocks[1].algebraic_eqs
                 /\ b2dBlocks[b2dRes[n]].algebraic_vars = b2dBlocks[1].algebraic_vars
                 /\ b2dBlocks[b2dRes[n]].children = b2dBlocks[1].children
                 /\ b2dLists[b2dBlocks[b2dRes[n]].state_vars] = <<>>
           /\ \A k \in DOMAIN b2dLists[b2dBlocks[1].children] :
                 b2dLists[b2dBlocks[1].children][k][2] > Len(InputBlocks(b2dIn))

====
